---- MODULE Spec2Model ----
(***************************************************************************)
(* Realm connection and realm selection of the kernel.                     *)
(*                                                                         *)
(*  - LighthouseWorldInstanceConnection (comms/v2): the connection object  *)
(*    that owns the peer transport; connect / changeRealm / disconnect are *)
(*    async methods whose awaits are the interleaving points.              *)
(*  - dao sagas: selectAndReconnectRealm and the generators it calls.      *)
(***************************************************************************)
EXTENDS Integers, Sequences, FiniteSets, TLC

(***************************************************************************)
(* Bounds                                                                  *)
(***************************************************************************)
\* number of connect / changeRealm / disconnect invocations on the connection
MaxCalls == 2
\* number of TRIGGER_RECONNECT_REALM actions dispatched (takeEvery forks one
\* selectAndReconnectRealm per action)
MaxRuns == 1

(***************************************************************************)
(* State of one LighthouseWorldInstanceConnection                          *)
(***************************************************************************)
VARIABLES
  peer,       \* this.peer: id of the transport the connection holds
  nPeers,     \* number of transports created so far (ids 0 .. nPeers-1)
  disposed,   \* transports on which dispose() has been called
  status,     \* last status handed to statusHandler
  rooms,      \* this.rooms
  calls,      \* the async calls made so far, each with its position
  currentRooms, \* peer.currentRooms of every transport: the ids of its rooms
  roomType,   \* what the transports list in currentRooms: "string" ids or
              \* "Room" objects with an id
  roomOps,    \* the joinRoom / leaveRoom calls issued to the transports
  received    \* the packets handed to peerCallback, with what it did

roomVars == <<currentRooms, roomType, roomOps>>

connVars == <<peer, nPeers, disposed, status, rooms, calls, roomVars, received>>

(***************************************************************************)
(* State of the dao sagas                                                  *)
(***************************************************************************)
VARIABLES
  config,                  \* PREVIEW, PIN_CATALYST, meta configuration, URL
  metaReady,               \* meta configuration initialized
  identityReady,           \* explorer identity available
  catalystCandidates,      \* store: dao.candidates
  addedCatalystCandidates, \* store: dao.addedCandidates
  worldRealm,              \* store: realm of the world context
  persistentStorage,       \* persistent storage: entry of every key
  saveFailure,             \* "rejected": a saveToPersistentStorage has failed;
                           \* "thrown": the handler that called it has thrown
  runs                     \* the forked selectAndReconnectRealm tasks

daoVars == <<config, metaReady, identityReady, catalystCandidates,
             addedCatalystCandidates, worldRealm, persistentStorage,
             saveFailure, runs>>

(***************************************************************************)
(* State of the other parts                                                *)
(***************************************************************************)
VARIABLES
  position,      \* a position on its way through createPositionData and
                 \* mapToPositionMessage
  crashRequests, \* the CrashPayloadRequest() calls: promise, listener, timer
  crashNotified, \* the payloads notified on crashPayloadResponseObservable
  commsIsland,   \* store: island of the comms state
  loadedSceneWorkers, \* the scene workers that are loaded
  sceneLog       \* what the scene events saga did for each action

VARIABLES
  website,       \* loadWebsiteSystems: its position, the login, the realm gate
  parcel,        \* parcelSceneManager: desiredParcelScenes, the worker of
                 \* every scene id, the calls in progress, what was done
  portable,      \* currentPortableExperiences and the calls of
                 \* declareWantedPortableExperiences
  crdt,          \* ctx.crdtMessages of one scene, the arrays it has held and
                 \* the messageFromRenderer calls
  auth,          \* session.loginState, the store's listeners and the
                 \* authenticate() calls
  loading        \* the loading state of the store and initialSceneLoading

kernelVars == <<website, parcel, portable, crdt, auth, loading>>

unityVars == <<crashRequests, crashNotified>>

sceneVars == <<commsIsland, loadedSceneWorkers, sceneLog>>

otherVars == <<position, unityVars, sceneVars, kernelVars>>

vars == <<connVars, daoVars, otherVars>>

InSeq(list) == {list[k] : k \in 1 .. Len(list)}

Peers == 0 .. (nPeers - 1)

\* transports created by the connection on which dispose() was never called
LivePeers == Peers \ disposed

Settled(c) == c.pc \in {"done", "rejected"}

AllSettled == \A i \in 1 .. Len(calls) : Settled(calls[i])

ConnectPending ==
  \E i \in 1 .. Len(calls) : calls[i].kind = "connect" /\ calls[i].pc = "awaitEstablished"

\* what awaitConnectionEstablished can reject with: an error without
\* responseJson, one whose responseJson.status is 'layer_is_full', one whose
\* responseJson has another status
ConnectErrors == {"timeout", "layer_is_full", "not_found"}

\* e.responseJson && e.responseJson.status === 'layer_is_full'
layerIsFull(e) == e = "layer_is_full"

\* status reported by the catch block of connect() (the mutant reports
\* 'error' for every failure)
alwaysError(layerFull) == "error"

FailureStatus(layerFull) == IF layerFull THEN "realm-full" ELSE "error"

\* connect(): if (!this.peer.connectedCount()) (the mutant never awaits)
awaitsNever(connectedCount) == FALSE

awaitsConnectionEstablished(connectedCount) == connectedCount = 0

\* cleanUpPeer: this.peer.dispose()
CleanUpPeerSkip(d, p) == d

cleanUpPeer(d, p) == d \cup {p}

SetCall(i, c) == [calls EXCEPT ![i] = c]

\* the fields of the connection
Fields == [peer |-> peer, disposed |-> disposed, status |-> status, rooms |-> rooms]

\* a call as it is made: count is the connectedCount() its connect() read
\* (-1 before), established the state of its awaitConnectionEstablished,
\* reports the statuses its connect() has reported, error what the await
\* rejected with, thrown what the call rejected with, before the fields of
\* the connection when it was made, quiet whether every earlier call had
\* settled by then, roomsSettled whether every joinRoom and leaveRoom had
\* settled by then
NewCall(kind, pc, p) ==
  [kind |-> kind, pc |-> pc, p |-> p, old |-> peer, duringConnect |-> ConnectPending,
   count |-> -1, established |-> "no", reports |-> <<>>, returned |-> "",
   error |-> "none", thrown |-> "none", before |-> Fields, quiet |-> AllSettled,
   roomsSettled |-> \A k \in 1 .. Len(roomOps) : roomOps[k].state # "pending",
   trace |-> <<>>, failedAt |-> "", syncRooms |-> <<>>, syncCurrent |-> {},
   type |-> [policy |-> "", name |-> "", ttl |-> -1, discardOlderThan |-> -1,
             expirationTime |-> -1]]

\* the steps of a call, in order
Did(c, steps) == [c EXCEPT !.trace = @ \o steps]

\* connect() of a call up to its await, or to its end when it does not await
ConnectStarts(c, connectedCount, pcAwait, pcDone) ==
  IF awaitsConnectionEstablished(connectedCount)
    THEN [c EXCEPT !.pc = pcAwait, !.count = connectedCount,
                   !.established = "pending"]
    ELSE Did([c EXCEPT !.pc = pcDone, !.count = connectedCount,
                       !.established = "skipped", !.reports = @ \o <<"connected">>,
                       !.returned = "true"],
             <<<<"status", "connected">>>>)

\* connect() after awaitConnectionEstablished has resolved
ConnectResolves(c, pcDone) ==
  Did([c EXCEPT !.pc = pcDone, !.established = "resolved",
                !.reports = @ \o <<"connected">>, !.returned = "true"],
      <<<<"status", "connected">>>>)

\* connect() after awaitConnectionEstablished has rejected with e: the catch
\* block reports the failure and throws e
ConnectRejects(c, e) ==
  Did([c EXCEPT !.pc = "rejected", !.established = "rejected", !.error = e,
                !.reports = @ \o <<FailureStatus(layerIsFull(e))>>, !.thrown = e,
                !.failedAt = "connect"],
      <<<<"status", FailureStatus(layerIsFull(e))>>>>)

\* constructor: this.peer = this.initializePeer()
ConnInitWith(type) ==
  /\ roomType = type
  /\ peer = 0
  /\ nPeers = 1
  /\ disposed = {}
  /\ status = "connecting"
  /\ rooms = <<>>
  /\ calls = <<>>
  /\ currentRooms = [p \in 0 .. MaxCalls |-> {}]
  /\ roomOps = <<>>
  /\ received = <<>>

ConnInit == ConnInitWith("string")

\* connect(), up to its first await (or to its end when the transport
\* already reports connections)
connect ==
  /\ Len(calls) < MaxCalls
  /\ \E connectedCount \in {0, 1} :
       LET c == ConnectStarts(NewCall("connect", "", peer), connectedCount,
                              "awaitEstablished", "done")
       IN /\ calls' = Append(calls, c)
          /\ status' = IF c.pc = "done" THEN "connected" ELSE status
  /\ UNCHANGED <<peer, nPeers, disposed, rooms>>
  /\ UNCHANGED roomVars
  /\ UNCHANGED <<received, daoVars, otherVars>>

\* awaitConnectionEstablished(60000) settles for a pending connect()
connectSettles(i) ==
  /\ calls[i].kind = "connect"
  /\ calls[i].pc = "awaitEstablished"
  /\ \/ /\ status' = "connected"
        /\ calls' = SetCall(i, ConnectResolves(calls[i], "done"))
     \/ \E e \in ConnectErrors :
          /\ status' = FailureStatus(layerIsFull(e))
          /\ calls' = SetCall(i, ConnectRejects(calls[i], e))
  /\ UNCHANGED <<peer, nPeers, disposed, rooms>>
  /\ UNCHANGED roomVars
  /\ UNCHANGED <<received, daoVars, otherVars>>

\* changeRealm(realm, url), up to "await this.cleanUpPeer()"
changeRealm ==
  /\ Len(calls) < MaxCalls
  /\ status' = "connecting"
  /\ disposed' = cleanUpPeer(disposed, peer)
  /\ calls' = Append(calls, Did(NewCall("changeRealm", "awaitDispose", peer),
                                <<<<"status", "connecting">>, <<"dispose", "called">>>>))
  /\ UNCHANGED <<peer, nPeers, rooms>>
  /\ UNCHANGED roomVars
  /\ UNCHANGED <<received, daoVars, otherVars>>

\* changeRealm after the dispose() promise resolved: initializePeer(), then
\* connect() on the new transport up to its await
changeRealmInitializePeer(i) ==
  /\ calls[i].kind = "changeRealm"
  /\ calls[i].pc = "awaitDispose"
  /\ peer' = nPeers
  /\ nPeers' = nPeers + 1
  /\ \E connectedCount \in {0, 1} :
       LET c == ConnectStarts(
                  Did([calls[i] EXCEPT !.p = nPeers],
                      <<<<"dispose", "resolved">>, <<"createPeer", "new">>,
                        <<"status", "connecting">>>>),
                  connectedCount, "awaitEstablished", "awaitConnect")
       IN /\ calls' = SetCall(i, c)
          /\ status' = IF c.pc = "awaitConnect" THEN "connected" ELSE "connecting"
  /\ UNCHANGED <<disposed, rooms>>
  /\ UNCHANGED roomVars
  /\ UNCHANGED <<received, daoVars, otherVars>>

\* the connect() called by changeRealm settles
changeRealmConnectSettles(i) ==
  /\ calls[i].kind = "changeRealm"
  /\ calls[i].pc = "awaitEstablished"
  /\ \/ /\ status' = "connected"
        /\ calls' = SetCall(i, ConnectResolves(calls[i], "awaitConnect"))
     \/ \E e \in ConnectErrors :
          /\ status' = FailureStatus(layerIsFull(e))
          /\ calls' = SetCall(i, ConnectRejects(calls[i], e))
  /\ UNCHANGED <<peer, nPeers, disposed, rooms>>
  /\ UNCHANGED roomVars
  /\ UNCHANGED <<received, daoVars, otherVars>>

\* changeRealm: the dispose() promise of the old transport rejects
changeRealmDisposeRejects(i) ==
  /\ calls[i].kind = "changeRealm"
  /\ calls[i].pc = "awaitDispose"
  /\ calls' = SetCall(i, Did([calls[i] EXCEPT !.pc = "rejected", !.failedAt = "dispose"],
                             <<<<"dispose", "rejected">>>>))
  /\ UNCHANGED <<peer, nPeers, disposed, status, rooms>>
  /\ UNCHANGED roomVars
  /\ UNCHANGED <<received, daoVars, otherVars>>

\* the room ids, in the order a transport lists its currentRooms
RoomIds == <<"r1", "r2">>

\* the lists setTopics is called with
RoomLists == {<<>>, <<"r1">>, <<"r2">>, <<"r1", "r2">>, <<"r1", "r1">>}

\* the representations of a room in peer.currentRooms: string | Room
RoomTypes == {"string", "Room"}

\* isSameRoom(roomId, roomIdOrObject), for an entry of currentRooms with the
\* id current
isSameRoom(roomId, current) == current = roomId

\* syncRoomsWithPeer: the rooms of this.rooms for which joinRoom is issued
\* (the mutants issue none, and one for every room of the list)
joiningNone(list, current) == <<>>

joiningAll(list, current) == list

joining(list, current) ==
  SelectSeq(list, LAMBDA room : ~\E c \in current : isSameRoom(room, c))

\* syncRoomsWithPeer: the current rooms for which leaveRoom is issued: those
\* no room of this.rooms is the same as, when they are strings
leaving(list, current) ==
  SelectSeq(RoomIds,
            LAMBDA c : /\ c \in current
                       /\ ~\E k \in 1 .. Len(list) : isSameRoom(list[k], c)
                       /\ roomType = "string")

\* the rooms for which a joinRoom on this.peer has not settled
JoinsInFlight ==
  {roomOps[k].room : k \in {j \in 1 .. Len(roomOps) :
                              /\ roomOps[j].op = "joinRoom"
                              /\ roomOps[j].peer = peer
                              /\ roomOps[j].state = "pending"}}

\* a joinRoom or leaveRoom call on this.peer: inFlight are the rooms whose
\* joinRoom had not settled and joined the rooms of currentRooms when it was
\* made
RoomOp(i, op, room, state, inFlight) ==
  [call |-> i, op |-> op, room |-> room, peer |-> peer, state |-> state,
   inFlight |-> inFlight, joined |-> currentRooms[peer]]

\* syncRoomsWithPeer run by call i for the desired list: the joinRoom and
\* leaveRoom calls it makes on this.peer, in order. joinRoom is called inside
\* this.rooms.map: when the call for the room at throwAt throws (0: none
\* does), the map ends there and neither the later joinRoom calls nor any
\* leaveRoom call is made; leaveRoom is called inside an async function, so
\* that its throwing is a rejection.
syncRoomsWithPeer(i, list, throwAt) ==
  LET current == currentRooms[peer]
      joins == joining(list, current)
      leaves == leaving(list, current)
      made == IF throwAt = 0 THEN Len(joins) ELSE throwAt
      before(k) == JoinsInFlight \cup {joins[j] : j \in 1 .. (k - 1)}
  IN [k \in 1 .. made |->
        RoomOp(i, "joinRoom", joins[k],
               IF k = throwAt THEN "threw" ELSE "pending", before(k))]
       \o (IF throwAt = 0
             THEN [k \in 1 .. Len(leaves) |->
                     RoomOp(i, "leaveRoom", leaves[k], "pending",
                            JoinsInFlight \cup InSeq(joins))]
             ELSE <<>>)

\* the positions at which a joinRoom of the batch can throw
ThrowAts(list) == 0 .. Len(joining(list, currentRooms[peer]))

Threw(ops) == \E k \in 1 .. Len(ops) : ops[k].state = "threw"

\* a call that runs syncRoomsWithPeer for the list and awaits its Promise.all
SyncStarts(c, list, ops) ==
  Did([c EXCEPT !.pc = IF Threw(ops) THEN "rejected"
                       ELSE IF ops = <<>> THEN "done" ELSE "awaitRooms",
                !.failedAt = IF Threw(ops) THEN "rooms" ELSE @,
                !.syncRooms = list, !.syncCurrent = currentRooms[peer]],
      [k \in 1 .. Len(ops) |-> <<ops[k].op, ops[k].room>>])

\* changeRealm resumes after "await this.connect()" and runs
\* syncRoomsWithPeer
changeRealmSyncRooms(i) ==
  /\ calls[i].kind = "changeRealm"
  /\ calls[i].pc = "awaitConnect"
  /\ \E throwAt \in ThrowAts(rooms) :
       LET ops == syncRoomsWithPeer(i, rooms, throwAt)
       IN /\ calls' = SetCall(i, SyncStarts(calls[i], rooms, ops))
          /\ roomOps' = roomOps \o ops
  /\ UNCHANGED <<peer, nPeers, disposed, status, rooms, currentRooms, roomType>>
  /\ UNCHANGED <<received, daoVars, otherVars>>

\* setTopics(rooms): this.rooms = rooms, then syncRoomsWithPeer
setTopics ==
  /\ Len(calls) < MaxCalls
  /\ \E list \in RoomLists :
       \E throwAt \in ThrowAts(list) :
         LET i == Len(calls) + 1
             ops == syncRoomsWithPeer(i, list, throwAt)
         IN /\ rooms' = list
            /\ calls' = Append(calls, SyncStarts(NewCall("setTopics", "", peer), list, ops))
            /\ roomOps' = roomOps \o ops
  /\ UNCHANGED <<peer, nPeers, disposed, status, currentRooms, roomType>>
  /\ UNCHANGED <<received, daoVars, otherVars>>

\* a joinRoom or leaveRoom promise settles: the transport's currentRooms
\* follow, and the Promise.all of the call that issued it rejects with it or
\* resolves with the last of its promises
roomOpSettles(k) ==
  /\ roomOps[k].state = "pending"
  /\ \E ok \in BOOLEAN :
       LET op == roomOps[k]
           i == op.call
           ops == [roomOps EXCEPT ![k].state = IF ok THEN "resolved" ELSE "rejected"]
           allResolved == \A j \in 1 .. Len(ops) :
                            ops[j].call = i => ops[j].state = "resolved"
       IN /\ roomOps' = ops
          /\ currentRooms' =
               IF ~ok THEN currentRooms
               ELSE IF op.op = "joinRoom"
                 THEN [currentRooms EXCEPT ![op.peer] = @ \cup {op.room}]
                 ELSE [currentRooms EXCEPT ![op.peer] = @ \ {op.room}]
          /\ calls' =
               IF calls[i].pc # "awaitRooms" THEN calls
               ELSE IF ~ok
                 THEN SetCall(i, [calls[i] EXCEPT !.pc = "rejected", !.failedAt = "rooms"])
               ELSE IF allResolved THEN SetCall(i, [calls[i] EXCEPT !.pc = "done"])
               ELSE calls
  /\ UNCHANGED <<peer, nPeers, disposed, status, rooms, roomType>>
  /\ UNCHANGED <<received, daoVars, otherVars>>

\* disconnect(): return this.cleanUpPeer()
disconnect ==
  /\ Len(calls) < MaxCalls
  /\ disposed' = cleanUpPeer(disposed, peer)
  /\ calls' = Append(calls, NewCall("disconnect", "awaitDispose", peer))
  /\ UNCHANGED <<peer, nPeers, status, rooms>>
  /\ UNCHANGED roomVars
  /\ UNCHANGED <<received, daoVars, otherVars>>

\* the dispose() promise returned by disconnect() resolves
disconnectSettles(i) ==
  /\ calls[i].kind = "disconnect"
  /\ calls[i].pc = "awaitDispose"
  /\ calls' = SetCall(i, [calls[i] EXCEPT !.pc = "done"])
  /\ UNCHANGED <<peer, nPeers, disposed, status, rooms>>
  /\ UNCHANGED roomVars
  /\ UNCHANGED <<received, daoVars, otherVars>>

(***************************************************************************)
(* Outgoing messages                                                       *)
(***************************************************************************)
\* an optional field of a PeerMessageType that is not set
Unset == -1

\* PeerMessageTypes.reliable(name) and PeerMessageTypes.unreliable(name) of
\* the peer library: the fields other than the name are the library's
reliable(name) ==
  [policy |-> "reliable", name |-> name, ttl |-> Unset,
   discardOlderThan |-> Unset, expirationTime |-> Unset]

unreliable(name) ==
  [policy |-> "unreliable", name |-> name, ttl |-> Unset,
   discardOlderThan |-> Unset, expirationTime |-> Unset]

\* the message types the connection defines itself, all with optimistic: true
commsMessageType ==
  [policy |-> "optimistic", name |-> "sceneComms", ttl |-> 10,
   discardOlderThan |-> Unset, expirationTime |-> 10 * 1000]

\* the mutant sends voice as a scene message is sent
VoiceTypeAsComms == [commsMessageType EXCEPT !.name = "voice"]

VoiceType ==
  [policy |-> "optimistic", name |-> "voice", ttl |-> 5,
   discardOlderThan |-> 2000, expirationTime |-> 10000]

ProfileRequestResponseType(action) ==
  [policy |-> "optimistic",
   name |-> IF action = "request" THEN "profile_request" ELSE "profile_response",
   ttl |-> 10, discardOlderThan |-> 0, expirationTime |-> 10000]

\* the send methods, with the data each wraps and the type it hands to
\* sendMessage
SendMethods ==
  {[name |-> "sendInitialMessage", data |-> "ProfileData",
    type |-> unreliable("initialProfile")],
   [name |-> "sendProfileMessage", data |-> "ProfileData", type |-> unreliable("profile")],
   [name |-> "sendProfileRequest", data |-> "ProfileRequestData",
    type |-> ProfileRequestResponseType("request")],
   [name |-> "sendProfileResponse", data |-> "ProfileResponseData",
    type |-> ProfileRequestResponseType("response")],
   [name |-> "sendPositionMessage", data |-> "PositionData", type |-> unreliable("position")],
   [name |-> "sendParcelUpdateMessage", data |-> "PositionData",
    type |-> unreliable("parcelUpdate")],
   [name |-> "sendParcelSceneCommsMessage", data |-> "SceneData", type |-> commsMessageType],
   [name |-> "sendVoiceMessage", data |-> "VoiceData", type |-> VoiceType],
   [name |-> "sendChatMessage", data |-> "ChatData", type |-> reliable("chat")]}

\* 'cannot send a message in a room not joined', word by word
RoomNotJoined ==
  <<"cannot", "send", "a", "message", "in", "a", "room", "not", "joined">>

\* what sendMessage can fail with: errors whose message is the room-not-joined
\* text (alone, or followed by the room), holds it further on, is another
\* text, and an error whose message is not a string
SendErrors ==
  {[id |-> "room_not_joined", isString |-> TRUE, message |-> RoomNotJoined],
   [id |-> "room_not_joined_r1", isString |-> TRUE, message |-> RoomNotJoined \o <<"(r1)">>],
   [id |-> "wrapped", isString |-> TRUE, message |-> <<"Error:">> \o RoomNotJoined],
   [id |-> "timeout", isString |-> TRUE, message |-> <<"timeout">>],
   [id |-> "no_message", isString |-> FALSE, message |-> <<>>]}

startsWith(message, prefix) ==
  Len(message) >= Len(prefix) /\ SubSeq(message, 1, Len(prefix)) = prefix

\* sendData: the errors its catch block ignores (the mutant ignores all)
ignoresAll(e) == TRUE

ignored(e) == e.isString /\ startsWith(e.message, RoomNotJoined)

\* a send method up to "await this.peer.sendMessage(...)" in sendData
send ==
  /\ Len(calls) < MaxCalls
  /\ \E method \in SendMethods :
       calls' = Append(calls,
                  [NewCall(method.name, "awaitSend", peer) EXCEPT
                     !.trace = <<<<"sendMessage", method.data>>>>,
                     !.type = method.type])
  /\ UNCHANGED <<peer, nPeers, disposed, status, rooms>>
  /\ UNCHANGED roomVars
  /\ UNCHANGED <<received, daoVars, otherVars>>

\* sendMessage settles: sendData returns when it resolved or failed with an
\* ignored error, and throws any other error
sendMessageSettles(i) ==
  /\ calls[i].pc = "awaitSend"
  /\ \/ calls' = SetCall(i, [calls[i] EXCEPT !.pc = "done"])
     \/ \E e \in SendErrors :
          calls' = SetCall(i,
            IF ignored(e)
              THEN [calls[i] EXCEPT !.pc = "done", !.error = e.id]
              ELSE [calls[i] EXCEPT !.pc = "rejected", !.error = e.id, !.thrown = e.id])
  /\ UNCHANGED <<peer, nPeers, disposed, status, rooms>>
  /\ UNCHANGED roomVars
  /\ UNCHANGED <<received, daoVars, otherVars>>

(***************************************************************************)
(* Incoming packets                                                        *)
(***************************************************************************)
\* number of packets handed to peerCallback
MaxPackets == 2

\* CommsMessage.DataCase
DataCases ==
  {"DATA_NOT_SET", "CHAT_DATA", "POSITION_DATA", "SCENE_DATA", "PROFILE_DATA",
   "VOICE_DATA", "PROFILE_REQUEST_DATA", "PROFILE_RESPONSE_DATA"}

\* the sender the transport reports for a packet and the time field of its
\* message
Heads == {[sender |-> "peerA", time |-> 10], [sender |-> "peerB", time |-> 20]}

\* the packets: the payload deserializes or not; a deserialized message has
\* a data case, or one this build does not know; the serialized profile of
\* a profile response is JSON or not; setPeerPosition throws or not for a
\* position; the handler called for it throws or not
Packets ==
  {[decodes |-> body.decodes, dataCase |-> body.dataCase, json |-> body.json,
    positionThrows |-> body.positionThrows, handlerThrows |-> body.handlerThrows,
    sender |-> head.sender, time |-> head.time] :
     head \in Heads,
     body \in
       {[decodes |-> TRUE, dataCase |-> dc, json |-> TRUE, positionThrows |-> FALSE,
         handlerThrows |-> ht] : dc \in DataCases \cup {"UNKNOWN"}, ht \in BOOLEAN}
       \cup {[decodes |-> TRUE, dataCase |-> "PROFILE_RESPONSE_DATA", json |-> FALSE,
              positionThrows |-> FALSE, handlerThrows |-> FALSE],
             [decodes |-> TRUE, dataCase |-> "POSITION_DATA", json |-> TRUE,
              positionThrows |-> TRUE, handlerThrows |-> FALSE],
             [decodes |-> FALSE, dataCase |-> "DATA_NOT_SET", json |-> TRUE,
              positionThrows |-> FALSE, handlerThrows |-> FALSE]}}

\* the handler the switch of peerCallback calls for a data case, "" in the
\* default case (the mutant hands every message to the chat handler)
chatHandlerForAll(dataCase) == "chatHandler"

handlerFor(dataCase) ==
  CASE dataCase = "CHAT_DATA" -> "chatHandler"
    [] dataCase = "POSITION_DATA" -> "positionHandler"
    [] dataCase = "SCENE_DATA" -> "sceneMessageHandler"
    [] dataCase = "PROFILE_DATA" -> "profileHandler"
    [] dataCase = "VOICE_DATA" -> "voiceHandler"
    [] dataCase = "PROFILE_REQUEST_DATA" -> "profileRequestHandler"
    [] dataCase = "PROFILE_RESPONSE_DATA" -> "profileResponseHandler"
    [] OTHER -> ""

\* the mapping of the data to the package throws: JSON.parse in
\* mapToPackageProfileResponse
mappingThrows(packet) ==
  packet.dataCase = "PROFILE_RESPONSE_DATA" /\ ~packet.json

\* the PackageType each case of the switch hands to createPackage
typeFor(dataCase) ==
  CASE dataCase = "CHAT_DATA" -> "chat"
    [] dataCase = "POSITION_DATA" -> "position"
    [] dataCase = "SCENE_DATA" -> "chat"
    [] dataCase = "PROFILE_DATA" -> "profile"
    [] dataCase = "VOICE_DATA" -> "voice"
    [] dataCase = "PROFILE_REQUEST_DATA" -> "profileRequest"
    [] dataCase = "PROFILE_RESPONSE_DATA" -> "profileResponse"
    [] OTHER -> ""

\* createPackage(sender, commsMessage, type, data): the envelope without
\* its data
createPackage(sender, time, type) ==
  [sender |-> sender, time |-> time, type |-> type]

\* the place in the try block of peerCallback where an error is thrown, ""
\* when none is
errorAt(packet) ==
  IF ~packet.decodes THEN "deserializeBinary"
  ELSE IF mappingThrows(packet) THEN "mapping"
  ELSE IF packet.dataCase = "POSITION_DATA" /\ packet.positionThrows THEN "setPeerPosition"
  ELSE IF handlerFor(packet.dataCase) # "" /\ packet.handlerThrows THEN "handler"
  ELSE ""

\* catch (e) of peerCallback: the errors it catches (the mutant lets the
\* errors of the handlers through)
caughtUnlessHandler(error) == error # "handler"

caught(error) == TRUE

\* what peerCallback does with a packet: the handlers it calls with their
\* envelopes, what it logs, and whether it throws
Handled(packet) ==
  LET error == errorAt(packet)
      called == handlerFor(packet.dataCase) # "" /\ error \in {"", "handler"}
  IN [packet |-> packet,
      handlers |-> IF called THEN <<handlerFor(packet.dataCase)>> ELSE <<>>,
      envelopes |-> IF called
                      THEN <<createPackage(packet.sender, packet.time,
                                           typeFor(packet.dataCase))>>
                      ELSE <<>>,
      logged |-> IF error # "" THEN "error"
                 ELSE IF handlerFor(packet.dataCase) = "" THEN "warn" ELSE "",
      thrown |-> error # "" /\ ~caught(error)]

\* the transport hands a packet to peerCallback
peerCallback ==
  /\ Len(received) < MaxPackets
  /\ \E packet \in Packets : received' = Append(received, Handled(packet))
  /\ UNCHANGED <<peer, nPeers, disposed, status, rooms, calls>>
  /\ UNCHANGED roomVars
  /\ UNCHANGED <<daoVars, otherVars>>

(***************************************************************************)
(* Positions                                                               *)
(***************************************************************************)
\* the values of a numeric component
Components == {0, 1}

\* Position: [x, y, z, rotation x, y, z, w, immediate]
Positions ==
  {<<x, y, z, rx, ry, rz, rw, immediate>> :
     x \in Components, y \in Components, z \in Components, rx \in Components,
     ry \in Components, rz \in Components, rw \in Components,
     immediate \in BOOLEAN}

\* new PositionData(): every field has the default of its type
NewPositionData ==
  [positionX |-> 0, positionY |-> 0, positionZ |-> 0, rotationX |-> 0,
   rotationY |-> 0, rotationZ |-> 0, rotationW |-> 0, immediate |-> FALSE]

createPositionData(p) ==
  [NewPositionData EXCEPT !.positionX = p[1], !.positionY = p[2],
                          !.positionZ = p[3], !.rotationX = p[4],
                          !.rotationY = p[5], !.rotationZ = p[6],
                          !.rotationW = p[7], !.immediate = p[8]]

\* the mutant reads the rotation as w, x, y, z
mapToPositionMessageW(positionData) ==
  <<positionData.positionX, positionData.positionY, positionData.positionZ,
    positionData.rotationW, positionData.rotationX, positionData.rotationY,
    positionData.rotationZ, positionData.immediate>>

mapToPositionMessage(positionData) ==
  <<positionData.positionX, positionData.positionY, positionData.positionZ,
    positionData.rotationX, positionData.rotationY, positionData.rotationZ,
    positionData.rotationW, positionData.immediate>>

PositionAtRest ==
  position = [p |-> <<0, 0, 0, 0, 0, 0, 0, FALSE>>, stage |-> "",
              data |-> NewPositionData, message |-> <<>>]

\* a position about to be sent
PositionInit ==
  \E p \in Positions :
    position = [p |-> p, stage |-> "position", data |-> NewPositionData,
                message |-> <<>>]

\* sendPositionData: const positionData = createPositionData(p)
sendPositionData ==
  /\ position.stage = "position"
  /\ position' = [position EXCEPT !.stage = "positionData",
                                  !.data = createPositionData(position.p)]
  /\ UNCHANGED <<connVars, daoVars, unityVars, sceneVars, kernelVars>>

\* peerCallback, case POSITION_DATA:
\* const positionMessage = mapToPositionMessage(commsMessage.getPositionData()!)
receivePositionData ==
  /\ position.stage = "positionData"
  /\ position' = [position EXCEPT !.stage = "positionMessage",
                                  !.message = mapToPositionMessage(position.data)]
  /\ UNCHANGED <<connVars, daoVars, unityVars, sceneVars, kernelVars>>

(***************************************************************************)
(* UnityInterface: CrashPayloadRequest                                     *)
(***************************************************************************)
\* number of CrashPayloadRequest() calls
MaxRequests == 2
\* number of crash payloads the renderer sends on its own
MaxNotified == 2

CrashPayloads == {"payload1", "payload2"}

\* a promise settles once: resolve and reject on a settled promise do
\* nothing
Settle(r, outcome, value) ==
  IF r.promise = "pending"
    THEN [r EXCEPT !.promise = outcome, !.value = value]
    ELSE r

\* Observable.remove(crashListener) in the timer (the mutant leaves the
\* listener registered)
removeNothing(registered) == registered

remove(registered) == FALSE

\* crashPayloadResponseObservable.notifyObservers(payload) for one request:
\* a listener added with addOnce is called, resolve(payload), and is no
\* longer registered
Notified(r, payload) ==
  IF r.listener
    THEN [Settle(r, "resolved", payload) EXCEPT
            !.listener = FALSE, !.events = @ \o <<<<"payload", payload>>>>]
    ELSE [r EXCEPT !.events = @ \o <<<<"payload", payload>>>>]

notifyObservers(requests, payload) ==
  [k \in 1 .. Len(requests) |-> Notified(requests[k], payload)]

\* the executor of the promise up to SendMessageToUnity: addOnce, setTimeout
NewRequest ==
  [promise |-> "pending", value |-> "", listener |-> TRUE, timer |-> "armed",
   sent |-> "", events |-> <<>>]

\* SendMessageToUnity throws inside the executor: the promise is rejected
\* with the error unless it has settled
SendThrew(r) ==
  [Settle(r, "rejected", "error") EXCEPT
     !.sent = "threw", !.events = @ \o <<<<"threw", "error">>>>]

\* CrashPayloadRequest(): SendMessageToUnity returns, or the renderer answers
\* inside it (wasm), or it throws, which rejects the promise
CrashPayloadRequest ==
  /\ Len(crashRequests) < MaxRequests
  /\ \/ /\ crashRequests' = Append(crashRequests, [NewRequest EXCEPT !.sent = "returned"])
        /\ UNCHANGED crashNotified
     \/ \E payload \in CrashPayloads, throws \in BOOLEAN :
          LET answered == notifyObservers(
                            Append(crashRequests, [NewRequest EXCEPT !.sent = "answered"]),
                            payload)
              i == Len(answered)
          IN /\ crashRequests' =
                  IF throws THEN [answered EXCEPT ![i] = SendThrew(@)] ELSE answered
             /\ crashNotified' = Append(crashNotified, payload)
     \/ /\ crashRequests' = Append(crashRequests, SendThrew(NewRequest))
        /\ UNCHANGED crashNotified
  /\ UNCHANGED <<connVars, daoVars, position, sceneVars, kernelVars>>

\* the renderer sends a crash payload
crashPayloadResponse ==
  /\ Len(crashNotified) < MaxNotified
  /\ \E payload \in CrashPayloads :
       /\ crashRequests' = notifyObservers(crashRequests, payload)
       /\ crashNotified' = Append(crashNotified, payload)
  /\ UNCHANGED <<connVars, daoVars, position, sceneVars, kernelVars>>

\* the 2000 ms timer of request i fires: remove(crashListener), reject()
crashTimerFires(i) ==
  /\ crashRequests[i].timer = "armed"
  /\ crashRequests' =
       [crashRequests EXCEPT ![i] =
          [Settle(@, "rejected", "") EXCEPT
             !.timer = "fired", !.listener = remove(@),
             !.events = @ \o <<<<"timer", "">>>>]]
  /\ UNCHANGED crashNotified
  /\ UNCHANGED <<connVars, daoVars, position, sceneVars, kernelVars>>

UnityAtRest ==
  /\ crashRequests = <<>>
  /\ crashNotified = <<>>

ConnNext ==
  \/ connect
  \/ changeRealm
  \/ disconnect
  \/ \E i \in 1 .. Len(calls) : connectSettles(i)
  \/ \E i \in 1 .. Len(calls) : changeRealmInitializePeer(i)
  \/ \E i \in 1 .. Len(calls) : changeRealmConnectSettles(i)
  \/ \E i \in 1 .. Len(calls) : changeRealmSyncRooms(i)
  \/ \E i \in 1 .. Len(calls) : disconnectSettles(i)


(***************************************************************************)
(* dao: realms, candidates, versions                                       *)
(***************************************************************************)
\* "no realm": the undefined a generator returns, an absent storage entry
NoRealm == [protocol |-> "none", hostname |-> "", serverName |-> ""]

\* an absent version (no minimum configured, no catalystVersion in a ping)
NoVersion == <<>>

V000 == <<0, 0, 0>>
V050 == <<0, 5, 0>>
V100 == <<1, 0, 0>>

Versions == {V050, V100}

\* semver gte on major.minor.patch
gte(a, b) ==
  \/ a[1] > b[1]
  \/ a[1] = b[1] /\ a[2] > b[2]
  \/ a[1] = b[1] /\ a[2] = b[2] /\ a[3] >= b[3]

Cand(name, domain, protocol, version) ==
  [catalystName |-> name, domain |-> domain, protocol |-> protocol,
   catalystVersion |-> version]

CandA == Cand("A", "hA", "v2", V100)
CandB == Cand("B", "hB", "v2", V050)
CandC == Cand("C", "hC", "v3", V100)
CandD == Cand("D", "", "v2", V100)

\* what fetchCatalystRealms can return
FetchResults == {<<>>, <<CandA, CandB, CandC, CandD>>}

\* what fetchCatalystStatuses can return for the servers asked
StatusResults(queried) == IF queried = <<>> THEN {<<>>} ELSE {<<>>, <<CandB>>}

candidateToRealm(c) ==
  [protocol |-> c.protocol, hostname |-> c.domain, serverName |-> c.catalystName]

\* the realm a name resolves to: the first candidate of that name
RECURSIVE resolveCommsConnectionString(_, _)
resolveCommsConnectionString(realmName, candidates) ==
  IF candidates = <<>> THEN NoRealm
  ELSE IF Head(candidates).catalystName = realmName
         THEN candidateToRealm(Head(candidates))
         ELSE resolveCommsConnectionString(realmName, Tail(candidates))

\* selector: all the candidates of the store
getAllCatalystCandidates(candidates, added) == candidates \o added

\* algorithm.pickCandidate: a deterministic pick among the candidates
pickCandidate(candidates) == Head(candidates)

\* filterCandidatesByCatalystVersion (the mutant keeps every candidate)
filterKeepsAll(candidates, minCatalystVersion) == candidates

filterCandidatesByCatalystVersion(candidates, minCatalystVersion) ==
  IF minCatalystVersion # NoVersion
    THEN SelectSeq(candidates, LAMBDA c : gte(c.catalystVersion, minCatalystVersion))
    ELSE candidates

\* initializeCatalystCandidates: the candidates stored for a fetched list
filteredCandidates(candidates, pin, minCatalystVersion) ==
  IF pin THEN candidates
  ELSE filterCandidatesByCatalystVersion(candidates, minCatalystVersion)

\* initializeCatalystCandidates: the added servers whose status is fetched
addedToFetch(pin, addedServers) == IF pin THEN <<>> ELSE addedServers

\* selectAndReconnectRealm: "load candidates if necessary"
scanAlways(candidates) == TRUE

needsInitialization(candidates) == Len(candidates) = 0

\* checkValidRealm before its ping: "ping" when the verdict needs one
checkValidRealmStart(realm) ==
  IF realm.protocol = "v2"
    THEN IF realm.hostname = "" THEN "invalid" ELSE "ping"
    ELSE "valid"

\* checkValidRealm after its ping
pingIgnoresStatus(pingStatus, pingVersion, minCatalystVersion) ==
  minCatalystVersion = NoVersion
    \/ gte(IF pingVersion = NoVersion THEN V000 ELSE pingVersion, minCatalystVersion)

checkValidRealmPing(pingStatus, pingVersion, minCatalystVersion) ==
  /\ pingStatus = "OK"
  /\ \/ minCatalystVersion = NoVersion
     \/ gte(IF pingVersion = NoVersion THEN V000 ELSE pingVersion, minCatalystVersion)

\* getConfiguredRealm: what it returns for a resolved realm and its verdict
configuredNeverReturned(realm, isValid) == NoRealm

getConfiguredRealm(realm, isValid) == IF isValid THEN realm ELSE NoRealm

\* pickCatalystRealm: the generator ends without a return statement
pickCatalystRealm(candidates) == NoRealm

\* a || b of selectRealm
secondOperand(a, b) == b

orElse(a, b) == IF a # NoRealm THEN a ELSE b

\* selectAndReconnectRealm: if (realm)
commitAnything(realm) == TRUE

realmSelected(realm) == realm # NoRealm

Networks == {"mainnet", "ropsten"}

getLastRealmCacheKey(network) == <<"last_realm_", network>>

getLastRealmCandidatesCacheKey(network) == <<"last_realm_candidates_", network>>

StorageKeys ==
  {getLastRealmCacheKey(n) : n \in Networks}
    \cup {getLastRealmCandidatesCacheKey(n) : n \in Networks}

\* the entries of the selected network
storageRealm == persistentStorage[getLastRealmCacheKey(config.network)]

storageCandidates == persistentStorage[getLastRealmCandidatesCacheKey(config.network)]

\* saveToPersistentStorage(key, data), when it succeeds
saveToPersistentStorage(storage, key, data) == [storage EXCEPT ![key] = data]

\* cacheCatalystCandidates: the entry saved for the store's candidates (the
\* mutant saves an empty list)
cacheEmptyList(allCandidates) == [present |-> TRUE, list |-> <<>>]

cacheCatalystCandidates(allCandidates) == [present |-> TRUE, list |-> allCandidates]

\* cacheCatalystRealm: the entry saved for the store's realm
cacheCatalystRealm(realm, stored) == IF realm # NoRealm THEN realm ELSE stored

PreviewRealm == [protocol |-> "v1", hostname |-> "preview", serverName |-> "localhost"]

(***************************************************************************)
(* dao: the forked selectAndReconnectRealm tasks                           *)
(***************************************************************************)
\* the tasks takeEvery can fork in the behaviours examined
Runs == DOMAIN runs

InitRun ==
  [pc |-> "idle", trace |-> <<>>, startEmpty |-> FALSE, triggerCache |-> NoRealm,
   fetched |-> <<>>, stored |-> <<>>, queried |-> <<>>,
   addedFetched |-> <<>>, addedStored |-> <<>>, allCandidates |-> <<>>,
   resolved |-> NoRealm, pingStatus |-> "", pingVersion |-> NoVersion, cachedRealm |-> NoRealm, picked |-> NoRealm,
   result |-> NoRealm, committed |-> NoRealm, atFailure |-> <<>>]

Ev(run, events) == [run EXCEPT !.trace = @ \o events]

Has(run, event) == \E k \in 1 .. Len(run.trace) : run.trace[k] = event

\* the catch block of selectAndReconnectRealm
Fatal(run) ==
  Ev([run EXCEPT !.pc = "failed"],
     <<"ReportFatalErrorWithCatalystPayload", "BringDownClientAndShowError", "rethrow">>)

\* selectRealm up to its first read of the storage: waitForCandidates, then
\* the selects of the network and of all the candidates
EnterSelectRealm(run, all) ==
  IF Len(all) = 0
    THEN Ev([run EXCEPT !.pc = "waitCandidates"], <<"selectRealm", "take">>)
    ELSE Ev([run EXCEPT !.pc = "readCandidatesCache", !.allCandidates = all],
            <<"selectRealm", "getFromPersistentStorage:candidates">>)

\* a task blocked in waitForCandidates takes SET_ADDED_CATALYST_CANDIDATES
TakeAdded(run, all) ==
  IF run.pc = "waitCandidates"
    THEN IF Len(all) = 0
           THEN Ev(run, <<"take">>)
           ELSE Ev([run EXCEPT !.pc = "readCandidatesCache", !.allCandidates = all],
                   <<"getFromPersistentStorage:candidates">>)
    ELSE run

\* selectAndReconnectRealm once selectRealm has returned realm
AfterSelectRealm(run, realm) ==
  IF realmSelected(realm)
    THEN Ev([run EXCEPT !.pc = "waitIdentity", !.result = realm],
            <<"selectRealm:return", "waitForExplorerIdentity">>)
    ELSE Fatal(Ev([run EXCEPT !.result = realm], <<"selectRealm:return", "throw">>))

\* selectRealm from its second priority on: the read of the cached realm
ToSecondPriority(run) ==
  Ev([run EXCEPT !.pc = "readRealmCache"], <<"getFromPersistentStorage:realm">>)

StoreUnchanged == UNCHANGED <<catalystCandidates, addedCatalystCandidates, worldRealm,
                              persistentStorage, saveFailure>>

\* an error thrown out of a task forked by takeEvery aborts daoSaga, which
\* cancels its watchers and the tasks they forked: selectAndReconnectRealm
\* rethrows (or lets a fetch error through), a cache handler lets the error
\* of saveToPersistentStorage through
daoSagaAborted ==
  \/ saveFailure = "thrown"
  \/ \E r \in Runs : runs[r].pc \in {"failed", "crashed"}

\* a cache handler forked for a dispatched action: "yield call(
\* saveToPersistentStorage, key, entry)" saves the entry, or fails
WriteThrough(key, entry, called) ==
  \E saved \in (IF called THEN BOOLEAN ELSE {TRUE}) :
    IF saved
      THEN /\ persistentStorage' =
                IF called THEN saveToPersistentStorage(persistentStorage, key, entry)
                ELSE persistentStorage
           /\ UNCHANGED saveFailure
      ELSE /\ UNCHANGED persistentStorage
           /\ saveFailure' = "rejected"

\* cacheCatalystCandidates, forked for SET_CATALYST_CANDIDATES and for
\* SET_ADDED_CATALYST_CANDIDATES, with the candidates then in the store
CandidatesWriteThrough(allCandidates) ==
  WriteThrough(getLastRealmCandidatesCacheKey(config.network),
               cacheCatalystCandidates(allCandidates), TRUE)

\* TRIGGER_RECONNECT_REALM is dispatched: takeEvery forks selectAndReconnectRealm,
\* which waits for the meta configuration
Trigger(r) ==
  /\ runs[r].pc = "idle"
  /\ ~daoSagaAborted
  /\ \A q \in Runs : q < r => runs[q].pc # "idle"
  /\ runs' = [runs EXCEPT ![r] =
       Ev([@ EXCEPT !.pc = "waitMeta", !.triggerCache = storageRealm],
          <<"waitForMetaConfigurationInitialization">>)]
  /\ UNCHANGED <<config, metaReady, identityReady>>
  /\ StoreUnchanged
  /\ UNCHANGED <<connVars, otherVars>>

MetaConfigurationInitialized ==
  /\ ~metaReady
  /\ metaReady' = TRUE
  /\ UNCHANGED <<config, identityReady, runs>>
  /\ StoreUnchanged
  /\ UNCHANGED <<connVars, otherVars>>

ExplorerIdentityReady ==
  /\ ~identityReady
  /\ identityReady' = TRUE
  /\ UNCHANGED <<config, metaReady, runs>>
  /\ StoreUnchanged
  /\ UNCHANGED <<connVars, otherVars>>

\* selectAndReconnectRealm from put(establishingComms()) to its next wait,
\* in preview mode: initLocalCatalyst, then waitForExplorerIdentity
BeginPreview(r) ==
  /\ runs[r].pc = "waitMeta"
  /\ ~daoSagaAborted
  /\ metaReady
  /\ config.PREVIEW
  /\ catalystCandidates' = <<>>
  /\ addedCatalystCandidates' = <<>>
  /\ CandidatesWriteThrough(getAllCatalystCandidates(<<>>, <<>>))
  /\ runs' = [q \in Runs |->
       IF q = r
         THEN Ev([runs[r] EXCEPT !.pc = "waitIdentity", !.result = PreviewRealm],
                 <<"establishingComms", "setCatalystCandidates",
                   "setAddedCatalystCandidates", "waitForExplorerIdentity">>)
         ELSE TakeAdded(runs[q], <<>>)]
  /\ UNCHANGED <<config, metaReady, identityReady, worldRealm>>
  /\ UNCHANGED <<connVars, otherVars>>

\* the same outside preview mode: the candidates are initialized when the
\* store has none, otherwise selectRealm starts
Begin(r) ==
  /\ runs[r].pc = "waitMeta"
  /\ ~daoSagaAborted
  /\ metaReady
  /\ ~config.PREVIEW
  /\ LET all == getAllCatalystCandidates(catalystCandidates, addedCatalystCandidates)
         run == Ev([runs[r] EXCEPT !.startEmpty = Len(all) = 0], <<"establishingComms">>)
     IN runs' = [runs EXCEPT ![r] =
          IF needsInitialization(all)
            THEN Ev([run EXCEPT !.pc = "fetchRealms"],
                    <<"catalystRealmsScanRequested", "fetchCatalystRealms">>)
            ELSE EnterSelectRealm(run, all)]
  /\ UNCHANGED <<config, metaReady, identityReady>>
  /\ StoreUnchanged
  /\ UNCHANGED <<connVars, otherVars>>

\* fetchCatalystRealms returns: the candidates are filtered and stored (and
\* cached by cacheCatalystCandidates), the added servers' statuses are asked
FetchRealmsReturns(r) ==
  /\ runs[r].pc = "fetchRealms"
  /\ ~daoSagaAborted
  /\ \E candidates \in FetchResults :
       LET filtered == filteredCandidates(candidates, config.PIN_CATALYST,
                                          config.minCatalystVersion)
           added == addedToFetch(config.PIN_CATALYST, config.addedServers)
       IN /\ catalystCandidates' = filtered
          /\ CandidatesWriteThrough(
               getAllCatalystCandidates(filtered, addedCatalystCandidates))
          /\ runs' = [runs EXCEPT ![r] =
               Ev([@ EXCEPT !.pc = "fetchStatuses", !.fetched = candidates,
                            !.stored = filtered, !.queried = added],
                  <<"setCatalystCandidates", "fetchCatalystStatuses">>)]
  /\ UNCHANGED <<config, metaReady, identityReady, addedCatalystCandidates,
                 worldRealm>>
  /\ UNCHANGED <<connVars, otherVars>>

\* the store and the storage as a failing fetch finds them
AtFailure ==
  [storage |-> persistentStorage, candidates |-> catalystCandidates,
   added |-> addedCatalystCandidates]

\* fetchCatalystRealms fails: the error leaves initializeCatalystCandidates
\* before its first put and selectAndReconnectRealm outside its try block
\* (the mutant stores the empty list instead)
FetchRealmsFailsAsEmpty(r) ==
  /\ runs[r].pc = "fetchRealms"
  /\ ~daoSagaAborted
  /\ catalystCandidates' = <<>>
  /\ CandidatesWriteThrough(getAllCatalystCandidates(<<>>, addedCatalystCandidates))
  /\ runs' = [runs EXCEPT ![r] =
       Ev([@ EXCEPT !.pc = "crashed", !.atFailure = AtFailure],
          <<"fetchCatalystRealms:throw", "rethrow">>)]
  /\ UNCHANGED <<config, metaReady, identityReady, addedCatalystCandidates,
                 worldRealm>>
  /\ UNCHANGED <<connVars, otherVars>>

FetchRealmsFails(r) ==
  /\ runs[r].pc = "fetchRealms"
  /\ ~daoSagaAborted
  /\ runs' = [runs EXCEPT ![r] =
       Ev([@ EXCEPT !.pc = "crashed", !.atFailure = AtFailure],
          <<"fetchCatalystRealms:throw", "rethrow">>)]
  /\ UNCHANGED <<config, metaReady, identityReady>>
  /\ StoreUnchanged
  /\ UNCHANGED <<connVars, otherVars>>

\* fetchCatalystStatuses fails: the error leaves initializeCatalystCandidates
\* before put(setAddedCatalystCandidates(...))
FetchStatusesFails(r) ==
  /\ runs[r].pc = "fetchStatuses"
  /\ ~daoSagaAborted
  /\ runs' = [runs EXCEPT ![r] =
       Ev([@ EXCEPT !.pc = "crashed", !.atFailure = AtFailure],
          <<"fetchCatalystStatuses:throw", "rethrow">>)]
  /\ UNCHANGED <<config, metaReady, identityReady>>
  /\ StoreUnchanged
  /\ UNCHANGED <<connVars, otherVars>>

\* fetchCatalystStatuses returns: the added candidates are filtered and stored
\* (and cached), the tasks blocked in waitForCandidates take the action, and
\* this task enters selectRealm
FetchStatusesReturns(r) ==
  /\ runs[r].pc = "fetchStatuses"
  /\ ~daoSagaAborted
  /\ \E addedCandidates \in StatusResults(runs[r].queried) :
       LET filtered == filterCandidatesByCatalystVersion(addedCandidates,
                                                         config.minCatalystVersion)
           all == getAllCatalystCandidates(catalystCandidates, filtered)
       IN /\ addedCatalystCandidates' = filtered
          /\ CandidatesWriteThrough(all)
          /\ runs' = [q \in Runs |->
               IF q = r
                 THEN EnterSelectRealm(
                        Ev([runs[r] EXCEPT !.addedFetched = addedCandidates,
                                           !.addedStored = filtered],
                           <<"setAddedCatalystCandidates">>), all)
                 ELSE TakeAdded(runs[q], all)]
  /\ UNCHANGED <<config, metaReady, identityReady, catalystCandidates,
                 worldRealm>>
  /\ UNCHANGED <<connVars, otherVars>>

\* the cached candidates are read; getConfiguredRealm resolves the realm of
\* the URL and checkValidRealm runs up to its ping
ReadCandidatesCache(r) ==
  /\ runs[r].pc = "readCandidatesCache"
  /\ ~daoSagaAborted
  /\ LET run == runs[r]
         realm == resolveCommsConnectionString(config.qsRealm,
                    run.allCandidates \o storageCandidates.list)
         resolvedRun == Ev([run EXCEPT !.resolved = realm],
                           <<"resolveCommsConnectionString">>)
         verdict == checkValidRealmStart(realm)
         checked == Ev(resolvedRun, <<"checkValidRealm", verdict>>)
         configured == getConfiguredRealm(realm, verdict = "valid")
     IN runs' = [runs EXCEPT ![r] =
          IF ~storageCandidates.present
            THEN Fatal(Ev(run, <<"selectRealm:throw">>))
          ELSE IF config.qsRealm = "" THEN ToSecondPriority(run)
          ELSE IF realm = NoRealm THEN ToSecondPriority(resolvedRun)
          ELSE IF verdict = "ping" THEN [checked EXCEPT !.pc = "ping"]
          ELSE IF configured # NoRealm THEN AfterSelectRealm(checked, configured)
          ELSE ToSecondPriority(checked)]
  /\ UNCHANGED <<config, metaReady, identityReady>>
  /\ StoreUnchanged
  /\ UNCHANGED <<connVars, otherVars>>

\* the ping of checkValidRealm returns
PingReturns(r) ==
  /\ runs[r].pc = "ping"
  /\ ~daoSagaAborted
  /\ \E pingStatus \in {"OK", "UNREACHABLE"}, pingVersion \in Versions \cup {NoVersion} :
       LET run == runs[r]
           isValid == checkValidRealmPing(pingStatus, pingVersion,
                                          config.minCatalystVersion)
           checked == Ev([run EXCEPT !.pingStatus = pingStatus,
                                     !.pingVersion = pingVersion],
                         <<IF isValid THEN "valid" ELSE "invalid">>)
           configured == getConfiguredRealm(run.resolved, isValid)
       IN runs' = [runs EXCEPT ![r] =
            IF configured # NoRealm THEN AfterSelectRealm(checked, configured)
            ELSE ToSecondPriority(checked)]
  /\ UNCHANGED <<config, metaReady, identityReady>>
  /\ StoreUnchanged
  /\ UNCHANGED <<connVars, otherVars>>

\* the cached realm is read; when there is none pickCatalystRealm runs
ReadRealmCache(r) ==
  /\ runs[r].pc = "readRealmCache"
  /\ ~daoSagaAborted
  /\ LET run == [runs[r] EXCEPT !.cachedRealm = storageRealm]
         picking == Ev([run EXCEPT !.picked =
                          candidateToRealm(pickCandidate(run.allCandidates))],
                       <<"pickCatalystRealm", "pickCandidate", "candidateToRealm">>)
     IN runs' = [runs EXCEPT ![r] =
          IF storageRealm # NoRealm
            THEN AfterSelectRealm(run,
                   orElse(storageRealm, pickCatalystRealm(run.allCandidates)))
            ELSE AfterSelectRealm(picking,
                   orElse(storageRealm, pickCatalystRealm(run.allCandidates)))]
  /\ UNCHANGED <<config, metaReady, identityReady>>
  /\ StoreUnchanged
  /\ UNCHANGED <<connVars, otherVars>>

\* waitForExplorerIdentity returns and changeRealmObject is called (the
\* mutant does not wait for the identity)
CallChangeRealmObjectEarly(r) ==
  /\ runs[r].pc = "waitIdentity"
  /\ ~daoSagaAborted
  /\ runs' = [runs EXCEPT ![r] =
       Ev([@ EXCEPT !.pc = "changingRealm", !.committed = runs[r].result],
          <<"changeRealmObject">>)]
  /\ UNCHANGED <<config, metaReady, identityReady>>
  /\ StoreUnchanged
  /\ UNCHANGED <<connVars, otherVars>>

CallChangeRealmObject(r) ==
  /\ runs[r].pc = "waitIdentity"
  /\ ~daoSagaAborted
  /\ identityReady
  /\ runs' = [runs EXCEPT ![r] =
       Ev([@ EXCEPT !.pc = "changingRealm", !.committed = runs[r].result],
          <<"changeRealmObject">>)]
  /\ UNCHANGED <<config, metaReady, identityReady>>
  /\ StoreUnchanged
  /\ UNCHANGED <<connVars, otherVars>>

\* changeRealmObject returns: the realm is in the store (SET_WORLD_CONTEXT)
\* and cacheCatalystRealm has saved it
ChangeRealmObjectReturns(r) ==
  /\ runs[r].pc = "changingRealm"
  /\ ~daoSagaAborted
  /\ worldRealm' = runs[r].committed
  /\ WriteThrough(getLastRealmCacheKey(config.network),
                  cacheCatalystRealm(runs[r].committed, storageRealm),
                  runs[r].committed # NoRealm)
  /\ runs' = [runs EXCEPT ![r] = Ev([@ EXCEPT !.pc = "done"], <<"setWorldContext">>)]
  /\ UNCHANGED <<config, metaReady, identityReady, catalystCandidates,
                 addedCatalystCandidates>>
  /\ UNCHANGED <<connVars, otherVars>>

\* changeRealmObject throws: outside preview mode the catch block reports it
ChangeRealmObjectThrows(r) ==
  /\ runs[r].pc = "changingRealm"
  /\ ~daoSagaAborted
  /\ runs' = [runs EXCEPT ![r] =
       IF config.PREVIEW THEN Ev([@ EXCEPT !.pc = "crashed"], <<"rethrow">>)
       ELSE Fatal(@)]
  /\ UNCHANGED <<config, metaReady, identityReady>>
  /\ StoreUnchanged
  /\ UNCHANGED <<connVars, otherVars>>

\* SET_WORLD_CONTEXT is dispatched with no context (the comms context is
\* dropped): cacheCatalystRealm finds no realm and saves nothing
SetWorldContextUndefined ==
  /\ worldRealm # NoRealm
  /\ ~daoSagaAborted
  /\ worldRealm' = NoRealm
  /\ WriteThrough(getLastRealmCacheKey(config.network),
                  cacheCatalystRealm(NoRealm, storageRealm), FALSE)
  /\ UNCHANGED <<config, metaReady, identityReady, catalystCandidates,
                 addedCatalystCandidates, runs>>
  /\ UNCHANGED <<connVars, otherVars>>

\* the rejection of a saveToPersistentStorage reaches the cache handler
\* that called it: neither handler catches it
SaveRejectionThrown ==
  /\ saveFailure = "rejected"
  /\ ~daoSagaAborted
  /\ saveFailure' = "thrown"
  /\ UNCHANGED <<config, metaReady, identityReady, catalystCandidates,
                 addedCatalystCandidates, worldRealm, persistentStorage, runs>>
  /\ UNCHANGED <<connVars, otherVars>>

(***************************************************************************)
(* Specifications                                                          *)
(***************************************************************************)
Configs ==
  {[PREVIEW |-> FALSE, PIN_CATALYST |-> pa[1], minCatalystVersion |-> min,
    qsRealm |-> qs, addedServers |-> pa[2], network |-> "mainnet"] :
      pa \in {<<TRUE, <<"hB">> >>, <<FALSE, <<>> >>, <<FALSE, <<"hB">> >>},
      min \in {NoVersion, V100},
      qs \in {"", "A", "C", "D"}}
  \cup
  {[PREVIEW |-> FALSE, PIN_CATALYST |-> FALSE, minCatalystVersion |-> V100,
    qsRealm |-> "A", addedServers |-> <<"hB">>, network |-> "ropsten"]}
  \cup
  {[PREVIEW |-> TRUE, PIN_CATALYST |-> FALSE, minCatalystVersion |-> NoVersion,
    qsRealm |-> "", addedServers |-> <<>>, network |-> network] :
      network \in Networks}

\* the candidates an earlier reconnect of the session can have left in the
\* store: what initializeCatalystCandidates stores for a fetch and its statuses
StoreAfterScan(c) ==
  {<<filteredCandidates(f, c.PIN_CATALYST, c.minCatalystVersion),
     filterCandidatesByCatalystVersion(a, c.minCatalystVersion)>> :
     f \in FetchResults,
     a \in StatusResults(addedToFetch(c.PIN_CATALYST, c.addedServers))}

\* an absent entry of the candidates cache
NoCandidatesEntry == [present |-> FALSE, list |-> <<>>]

\* a storage whose entries for the network are the given ones; the entries
\* of the other network are those a session on it has left
StorageWith(network, realm, candidates) ==
  [k \in StorageKeys |->
     IF k = getLastRealmCacheKey(network) THEN realm
     ELSE IF k = getLastRealmCandidatesCacheKey(network) THEN candidates
     ELSE IF k[1] = "last_realm_" THEN candidateToRealm(CandA)
     ELSE [present |-> TRUE, list |-> <<CandA>>]]

\* the store before any reconnect, or as an earlier reconnect left it; the
\* storage of a first session, or as an earlier session left it
DaoInitWith(configs, tasks) ==
  /\ config \in configs
  /\ metaReady = FALSE
  /\ identityReady = FALSE
  /\ worldRealm = NoRealm
  /\ saveFailure = "none"
  /\ \E realm \in {NoRealm, candidateToRealm(CandB)} :
       \/ /\ catalystCandidates = <<>>
          /\ addedCatalystCandidates = <<>>
          /\ persistentStorage =
               StorageWith(config.network, realm,
                           IF realm = NoRealm THEN NoCandidatesEntry
                           ELSE cacheCatalystCandidates(<<CandB>>))
       \/ /\ ~config.PREVIEW
          /\ \E scan \in StoreAfterScan(config) :
               /\ getAllCatalystCandidates(scan[1], scan[2]) # <<>>
               /\ catalystCandidates = scan[1]
               /\ addedCatalystCandidates = scan[2]
               /\ persistentStorage =
                    StorageWith(config.network, realm,
                      cacheCatalystCandidates(
                        getAllCatalystCandidates(scan[1], scan[2])))
  /\ runs = [r \in 1 .. tasks |-> InitRun]

DaoInit == DaoInitWith(Configs, MaxRuns)

\* the dao sagas at rest, for the specification of the connection
DaoAtRest ==
  /\ config = [PREVIEW |-> FALSE, PIN_CATALYST |-> FALSE,
               minCatalystVersion |-> NoVersion, qsRealm |-> "", addedServers |-> <<>>,
               network |-> "mainnet"]
  /\ metaReady = FALSE
  /\ identityReady = FALSE
  /\ catalystCandidates = <<>>
  /\ addedCatalystCandidates = <<>>
  /\ worldRealm = NoRealm
  /\ persistentStorage = StorageWith(config.network, NoRealm, NoCandidatesEntry)
  /\ saveFailure = "none"
  /\ runs = [r \in 1 .. MaxRuns |-> InitRun]

DaoSteps ==
  \/ SaveRejectionThrown
  \/ SetWorldContextUndefined
  \/ MetaConfigurationInitialized
  \/ ExplorerIdentityReady
  \/ \E r \in Runs : BeginPreview(r)
  \/ \E r \in Runs : Begin(r)
  \/ \E r \in Runs : FetchRealmsReturns(r)
  \/ \E r \in Runs : FetchRealmsFails(r)
  \/ \E r \in Runs : FetchStatusesReturns(r)
  \/ \E r \in Runs : FetchStatusesFails(r)
  \/ \E r \in Runs : ReadCandidatesCache(r)
  \/ \E r \in Runs : PingReturns(r)
  \/ \E r \in Runs : ReadRealmCache(r)
  \/ \E r \in Runs : CallChangeRealmObject(r)
  \/ \E r \in Runs : ChangeRealmObjectReturns(r)
  \/ \E r \in Runs : ChangeRealmObjectThrows(r)

DaoNext ==
  \/ \E r \in Runs : Trigger(r)
  \/ DaoSteps

(***************************************************************************)
(* Scene events saga                                                       *)
(***************************************************************************)
\* number of SET_WORLD_CONTEXT and SET_COMMS_ISLAND actions dispatched
MaxDispatched == 2

\* an island that is undefined
NoIsland == "undefined"

Islands == {NoIsland, "", "casla-island"}

SceneRealms == {NoRealm, candidateToRealm(CandA), candidateToRealm(CandC)}

SceneWorkers == {"scene1", "scene2"}

toEnvironmentRealmType(realm, island) == [realm |-> realm, island |-> island]

realmToConnectionString(realm) == <<realm.protocol, realm.serverName, realm.hostname>>

\* allScenesEvent(data): sendSceneEvent on every loaded scene worker (the
\* mutant stops after the first)
allScenesEventToFirst(workers, data) ==
  IF workers = {} THEN {}
  ELSE {[worker |-> CHOOSE w \in workers : TRUE, eventType |-> data.eventType,
         payload |-> data.payload]}

allScenesEvent(workers, data) ==
  {[worker |-> w, eventType |-> data.eventType, payload |-> data.payload] :
     w \in workers}

\* the handler of the saga for both actions: it selects the realm and the
\* island of the store and, when there is a realm, calls allScenesEvent and
\* then updateLocation
islandChanged(action, realm, island) ==
  IF realm # NoRealm
    THEN [action |-> action, workers |-> loadedSceneWorkers,
          events |-> allScenesEvent(loadedSceneWorkers,
                       [eventType |-> "onRealmChanged",
                        payload |-> toEnvironmentRealmType(realm, island)]),
          updateLocation |-> <<<<realmToConnectionString(realm), island>>>>,
          order |-> <<"allScenesEvent", "updateLocation">>]
    ELSE [action |-> action, workers |-> loadedSceneWorkers, events |-> {},
          updateLocation |-> <<>>, order |-> <<>>]

\* SET_WORLD_CONTEXT: the reducer stores the realm of the context, then the
\* saga handles the action
setWorldContext ==
  /\ Len(sceneLog) < MaxDispatched
  /\ \E realm \in SceneRealms :
       /\ worldRealm' = realm
       /\ sceneLog' = Append(sceneLog,
            islandChanged([type |-> "SET_WORLD_CONTEXT", realm |-> realm,
                           island |-> commsIsland], realm, commsIsland))
  /\ UNCHANGED <<commsIsland, loadedSceneWorkers>>
  /\ UNCHANGED <<config, metaReady, identityReady, catalystCandidates,
                 addedCatalystCandidates, persistentStorage, saveFailure, runs>>
  /\ UNCHANGED <<connVars, position, unityVars, kernelVars>>

\* SET_COMMS_ISLAND: the reducer stores the island, then the saga handles the
\* action
setCommsIsland ==
  /\ Len(sceneLog) < MaxDispatched
  /\ \E island \in Islands :
       /\ commsIsland' = island
       /\ sceneLog' = Append(sceneLog,
            islandChanged([type |-> "SET_COMMS_ISLAND", realm |-> worldRealm,
                           island |-> island], worldRealm, island))
  /\ UNCHANGED loadedSceneWorkers
  /\ UNCHANGED <<connVars, daoVars, position, unityVars, kernelVars>>

SceneAtRest ==
  /\ commsIsland = NoIsland
  /\ loadedSceneWorkers = {}
  /\ sceneLog = <<>>

\* the saga with the scenes that are loaded
SceneInit ==
  /\ commsIsland = NoIsland
  /\ loadedSceneWorkers \in SUBSET SceneWorkers
  /\ sceneLog = <<>>

(***************************************************************************)
(* kernel: loadWebsiteSystems and the realm gate                           *)
(***************************************************************************)
\* waitForRealmInitialized: while (!(yield select(getRealm))) take(
\* SET_WORLD_CONTEXT); the mutant returns at the first action it takes
waitForAnyContext(realm, afterTake) ==
  IF realm # NoRealm \/ afterTake THEN "returned" ELSE "take"

waitForRealmInitialized(realm, afterTake) ==
  IF realm # NoRealm THEN "returned" ELSE "take"

\* loadWebsiteSystems before it is called: login is the state of the
\* session, gate the state of the waitForRealmInitialized run by
\* realmInitialized(), gateRealm the realm it returned on, trace what
\* loadWebsiteSystems has done
WebsiteAtRest ==
  website = [pc |-> "notCalled", login |-> "pending", profile |-> "unknown",
             gate |-> "notCalled", gateRealm |-> NoRealm, taken |-> 0,
             dispatched |-> 0, trace |-> <<>>]

Does(events) == [website EXCEPT !.trace = @ \o events]

WebsiteFrame ==
  /\ UNCHANGED <<config, identityReady, catalystCandidates,
                 addedCatalystCandidates, persistentStorage, saveFailure, runs>>
  /\ UNCHANGED <<connVars, position, unityVars, sceneVars>>
  /\ UNCHANGED <<parcel, portable, crdt, auth, loading>>

\* initInternal calls loadWebsiteSystems, which awaits ensureUnityInterface()
loadWebsiteSystems ==
  /\ website.pc = "notCalled"
  /\ website' = [Does(<<"ensureUnityInterface">>) EXCEPT !.pc = "ensureUnityInterface"]
  /\ UNCHANGED <<metaReady, worldRealm>>
  /\ WebsiteFrame

\* ensureUnityInterface() resolves: ensureMetaConfigurationInitialized() is
\* awaited
unityInterfaceEnsured ==
  /\ website.pc = "ensureUnityInterface"
  /\ website' = [Does(<<"ensureMetaConfigurationInitialized">>)
                   EXCEPT !.pc = "ensureMetaConfigurationInitialized"]
  /\ UNCHANGED <<metaReady, worldRealm>>
  /\ WebsiteFrame

\* ensureMetaConfigurationInitialized() resolves: the renderer is configured
\* and onLoginCompleted() is awaited
metaConfigurationEnsured ==
  /\ website.pc = "ensureMetaConfigurationInitialized"
  /\ metaReady
  /\ website' = [Does(<<"SetKernelConfiguration", "onLoginCompleted">>)
                   EXCEPT !.pc = "onLoginCompleted"]
  /\ UNCHANGED <<metaReady, worldRealm>>
  /\ WebsiteFrame

\* the session completes the login, with or without a profile of the user
\* in the store
loginCompleted ==
  /\ website.login = "pending"
  /\ \E profile \in {"present", "missing"} :
       website' = [website EXCEPT !.login = "completed", !.profile = profile]
  /\ UNCHANGED <<metaReady, worldRealm>>
  /\ WebsiteFrame

\* onLoginCompleted() resolves: without a profile the error is reported and
\* loadWebsiteSystems returns; with one, realmInitialized() is called and
\* awaited
onLoginCompletedResolves ==
  /\ website.pc = "onLoginCompleted"
  /\ website.login = "completed"
  /\ website' =
       IF website.profile = "missing"
         THEN [Does(<<"onLoginCompleted:resolved", "ReportFatalError", "return">>)
                 EXCEPT !.pc = "returned"]
         ELSE [Does(<<"onLoginCompleted:resolved", "ConfigureTutorial",
                      "realmInitialized">>)
                 EXCEPT !.pc = "realmInitialized",
                        !.gate = waitForRealmInitialized(worldRealm, FALSE),
                        !.gateRealm = worldRealm]
  /\ UNCHANGED <<metaReady, worldRealm>>
  /\ WebsiteFrame

\* SET_WORLD_CONTEXT is dispatched: the reducer stores the realm of the
\* context and a waitForRealmInitialized blocked in its take goes round its
\* loop
takeSetWorldContext ==
  /\ website.dispatched < MaxDispatched
  /\ \E realm \in SceneRealms :
       /\ worldRealm' = realm
       /\ website' =
            IF website.gate = "take"
              THEN [website EXCEPT !.dispatched = @ + 1, !.taken = @ + 1,
                                   !.gate = waitForRealmInitialized(realm, TRUE),
                                   !.gateRealm = realm]
              ELSE [website EXCEPT !.dispatched = @ + 1]
  /\ UNCHANGED metaReady
  /\ WebsiteFrame

\* realmInitialized() resolves: the foreground is reported and
\* startUnitySceneWorkers is called and awaited
realmInitializedResolves ==
  /\ website.pc = "realmInitialized"
  /\ website.gate = "returned"
  /\ website' = [Does(<<"realmInitialized:resolved", "reportForeground",
                        "startUnitySceneWorkers">>)
                   EXCEPT !.pc = "startUnitySceneWorkers"]
  /\ UNCHANGED <<metaReady, worldRealm>>
  /\ WebsiteFrame

\* startUnitySceneWorkers resolves: the teleport is notified and the engine
\* is signalled ready
sceneWorkersStarted ==
  /\ website.pc = "startUnitySceneWorkers"
  /\ website' = [Does(<<"teleportObservable", "signalEngineReady", "return">>)
                   EXCEPT !.pc = "returned"]
  /\ UNCHANGED <<metaReady, worldRealm>>
  /\ WebsiteFrame

(***************************************************************************)
(* parcelSceneManager: the desired parcel scenes and the scene workers     *)
(***************************************************************************)
MaxSceneCalls == 3

\* the ids of the parcel scenes, and of the scenes that are never desired
\* parcel scenes: the global avatar scene and a portable experience
ParcelSceneIds == SceneWorkers

GlobalSceneIds == {"dcl-gs-avatars", "px1"}

SceneIds == ParcelSceneIds \cup GlobalSceneIds

Without(list, id) == SelectSeq(list, LAMBDA x : x # id)

Logged(st, events) == [st EXCEPT !.log = @ \o events]

\* forceStopSceneWorker(worker)
forceStopSceneWorker(st, id, by) ==
  [Logged(st, <<[e |-> "dispose", id |-> id, w |-> st.worker[id], by |-> by],
                [e |-> "delete", id |-> id, w |-> st.worker[id], by |-> by]>>)
     EXCEPT !.worker[id] = 0]

\* unloadParcelSceneById(sceneId)
unloadParcelSceneById(st, id, by) ==
  IF st.worker[id] = 0 THEN st
  ELSE forceStopSceneWorker(
         Logged(st, <<[e |-> "unloaded", id |-> id, w |-> st.worker[id], by |-> by]>>),
         id, by)

\* setNewParcelScene(sceneId, worker)
setNewParcelScene(st, id, w) ==
  IF st.worker[id] = w THEN st
  ELSE LET stopped == IF st.worker[id] # 0
                        THEN forceStopSceneWorker(st, id, "setNewParcelScene")
                        ELSE st
       IN [Logged(stopped, <<[e |-> "set", id |-> id, w |-> w, by |-> "setNewParcelScene"]>>)
             EXCEPT !.worker[id] = w]

\* loadParcelScene(kernelScene): the worker of the scene id, created when
\* there is none
loadParcelScene(st, id) ==
  IF st.worker[id] # 0 THEN st
  ELSE setNewParcelScene(
         [Logged(st, <<[e |-> "new", id |-> id, w |-> st.created + 1,
                        by |-> "loadParcelScene"]>>)
            EXCEPT !.created = @ + 1],
         id, st.created + 1)

\* loadParcelSceneByIdIfMissing(sceneId, entity)
loadParcelSceneByIdIfMissing(st, id) ==
  IF st.worker[id] # 0 THEN st
  ELSE LET loaded == loadParcelScene(st, id)
       IN Logged(setNewParcelScene(loaded, id, loaded.worker[id]),
                 <<[e |-> "onLoadParcelScenes", id |-> id, w |-> loaded.worker[id],
                    by |-> "loadParcelSceneByIdIfMissing"]>>)

\* setDesiredParcelScenes, first loop: the scenes it destroys, in order (the
\* mutant destroys every loaded scene that is not in the new set)
toUnloadAnyLoaded(previousSet, newSet, st) ==
  SelectSeq(<<"scene1", "scene2", "dcl-gs-avatars", "px1">>,
            LAMBDA id : id \notin InSeq(newSet) /\ st.worker[id] # 0)

toUnload(previousSet, newSet, st) ==
  SelectSeq(previousSet, LAMBDA id : id \notin InSeq(newSet) /\ st.worker[id] # 0)

RECURSIVE unloadAll(_, _)
unloadAll(st, list) ==
  IF list = <<>> THEN st
  ELSE unloadAll(unloadParcelSceneById(st, Head(list), "setDesiredParcelScenes"),
                 Tail(list))

\* setDesiredParcelScenes, second loop from its entry idx: the index of the
\* first scene without a worker (0: none)
firstMissing(st, newSet, idx) ==
  IF \E k \in idx .. Len(newSet) : st.worker[newSet[k]] = 0
    THEN CHOOSE k \in idx .. Len(newSet) :
           /\ st.worker[newSet[k]] = 0
           /\ \A j \in idx .. (k - 1) : st.worker[newSet[j]] # 0
    ELSE 0

\* the second loop up to its next await, or to its end
loadLoop(st, task) ==
  LET k == firstMissing(st, task.newSet, task.idx)
  IN IF k = 0
       THEN [st EXCEPT !.tasks = Append(@, [task EXCEPT !.pc = "done"])]
       ELSE [loadParcelSceneByIdIfMissing(st, task.newSet[k])
               EXCEPT !.tasks = Append(@, [task EXCEPT !.pc = "await", !.idx = k + 1])]

\* setDesiredParcelScenes(desiredParcelScenes) up to its first await
setDesiredParcelScenes(st, kind, id, newSet) ==
  LET previousSet == st.desired
      ids == toUnload(previousSet, newSet, st)
      unloaded == unloadAll([st EXCEPT !.desired = newSet,
                                       !.everDesired = @ \cup InSeq(newSet)], ids)
  IN loadLoop(unloaded, [kind |-> kind, id |-> id, previousSet |-> previousSet,
                         newSet |-> newSet, unloads |-> ids, idx |-> 1, pc |-> ""])

\* a call that returns without calling setDesiredParcelScenes
ReturnedEarly(st, kind, id) ==
  [st EXCEPT !.tasks = Append(@, [kind |-> kind, id |-> id, previousSet |-> st.desired,
                                  newSet |-> st.desired, unloads |-> <<>>, idx |-> 1,
                                  pc |-> "returned"])]

ParcelFrame == UNCHANGED <<connVars, daoVars, position, unityVars, commsIsland,
                           sceneLog, website, portable, crdt, auth, loading>>

Workers(st) == {id \in SceneIds : st.worker[id] # 0}

\* 'Scene.shouldStart': addDesiredParcel(opts.entity)
addDesiredParcel ==
  /\ Len(parcel.tasks) < MaxSceneCalls
  /\ \E id \in ParcelSceneIds :
       parcel' = IF id \in InSeq(parcel.desired)
                   THEN ReturnedEarly(parcel, "addDesiredParcel", id)
                   ELSE setDesiredParcelScenes(parcel, "addDesiredParcel", id,
                                               Append(parcel.desired, id))
  /\ loadedSceneWorkers' = Workers(parcel')
  /\ ParcelFrame

\* 'Scene.shouldUnload': removeDesiredParcel(opts.sceneId)
removeDesiredParcel ==
  /\ Len(parcel.tasks) < MaxSceneCalls
  /\ \E id \in ParcelSceneIds :
       parcel' = IF id \notin InSeq(parcel.desired)
                   THEN ReturnedEarly(parcel, "removeDesiredParcel", id)
                   ELSE setDesiredParcelScenes(parcel, "removeDesiredParcel", id,
                                               Without(parcel.desired, id))
  /\ loadedSceneWorkers' = Workers(parcel')
  /\ ParcelFrame

\* reloadScene(sceneId) of a parcel scene
reloadScene ==
  /\ Len(parcel.tasks) < MaxSceneCalls
  /\ \E id \in ParcelSceneIds :
       parcel' = setDesiredParcelScenes(
                   unloadParcelSceneById(parcel, id, "reloadScene"),
                   "reloadScene", id, parcel.desired)
  /\ loadedSceneWorkers' = Workers(parcel')
  /\ ParcelFrame

\* "await loadParcelSceneByIdIfMissing(newSceneId, entity)" of a call
\* resumes: its loop goes on over the rest of its new set
setDesiredParcelScenesResumes(t) ==
  /\ parcel.tasks[t].pc = "await"
  /\ LET rest == [parcel EXCEPT !.tasks = SubSeq(@, 1, t - 1)]
         resumed == loadLoop(rest, parcel.tasks[t])
     IN parcel' = [resumed EXCEPT !.tasks =
                     SubSeq(parcel.tasks, 1, t - 1) \o <<resumed.tasks[t]>>
                       \o SubSeq(parcel.tasks, t + 1, Len(parcel.tasks))]
  /\ loadedSceneWorkers' = Workers(parcel')
  /\ ParcelFrame

\* the scenes loaded before any parcel scene is desired, or with both parcel
\* scenes desired and loaded
NewParcel(desired) ==
  [desired |-> desired, everDesired |-> InSeq(desired),
   worker |-> [id \in SceneIds |->
                 IF id = "dcl-gs-avatars" THEN 1
                 ELSE IF id = "px1" THEN 2
                 ELSE IF id = "scene1" /\ id \in InSeq(desired) THEN 3
                 ELSE IF id = "scene2" /\ id \in InSeq(desired) THEN 4
                 ELSE 0],
   created |-> 4, tasks |-> <<>>, log |-> <<>>]

ParcelAtRest == parcel = [NewParcel(<<>>) EXCEPT !.worker = [id \in SceneIds |-> 0]]

ParcelInit ==
  /\ parcel \in {NewParcel(<<>>), NewParcel(<<"scene1", "scene2">>)}
  /\ commsIsland = NoIsland
  /\ loadedSceneWorkers = Workers(parcel)
  /\ sceneLog = <<>>

(***************************************************************************)
(* portable experiences                                                    *)
(***************************************************************************)
MaxDeclared == 2

PortableIds == {"px1", "px2"}

\* the lists declareWantedPortableExperiences is called with (entity ids)
PortableLists == {<<>>, <<"px1">>, <<"px2">>, <<"px1", "px1">>, <<"px1", "px2">>}

\* "kill extra ones": the running experiences that are not wanted
extra(running, wantedIds) == {sceneUrn \in running : sceneUrn \notin InSeq(wantedIds)}

\* spawnPortableExperience(spawnData) on st = [running, workers, spawned,
\* threw]: it throws when the experience is running or a scene worker has
\* its id
spawnPortableExperience(st, id) ==
  IF id \in st.running \/ id \in st.workers
    THEN [st EXCEPT !.threw = TRUE]
    ELSE [st EXCEPT !.running = @ \cup {id}, !.workers = @ \cup {id},
                    !.spawned = Append(@, id)]

\* "then load all the missing scenes": the loop ends when a spawn throws
RECURSIVE spawnMissing(_, _)
spawnMissing(st, pxs) ==
  IF pxs = <<>> \/ st.threw THEN st
  ELSE spawnMissing(IF Head(pxs) \notin st.running
                      THEN spawnPortableExperience(st, Head(pxs))
                      ELSE st,
                    Tail(pxs))

PortableFrame == UNCHANGED <<connVars, daoVars, position, unityVars, commsIsland,
                             sceneLog, website, parcel, crdt, auth, loading>>

\* declareWantedPortableExperiences(pxs) up to "await sleep(250)"
declareWantedPortableExperiences ==
  /\ Len(portable.calls) < MaxDeclared
  /\ \E pxs \in PortableLists :
       LET killed == extra(portable.running, pxs)
       IN /\ portable' =
               [portable EXCEPT
                  !.running = @ \ killed,
                  !.calls = Append([u \in 1 .. Len(@) |->
                                      IF @[u].pc = "sleep"
                                        THEN [@[u] EXCEPT !.overlapped = TRUE]
                                        ELSE @[u]],
                                   [pxs |-> pxs, pc |-> "sleep",
                                    before |-> portable.running,
                                    killed |-> killed, spawned |-> <<>>,
                                    overlapped |-> \E t \in 1 .. Len(portable.calls) :
                                                     portable.calls[t].pc = "sleep",
                                    after |-> {}])]
          /\ loadedSceneWorkers' = loadedSceneWorkers \ killed
  /\ PortableFrame

\* sleep(250) resolves for a call: it spawns the experiences of its list
\* that are not running
sleepResolves(t) ==
  /\ portable.calls[t].pc = "sleep"
  /\ LET st == spawnMissing([running |-> portable.running,
                             workers |-> loadedSceneWorkers, spawned |-> <<>>,
                             threw |-> FALSE],
                            portable.calls[t].pxs)
     IN /\ portable' =
             [portable EXCEPT
                !.running = st.running,
                !.calls[t] = [@ EXCEPT !.pc = IF st.threw THEN "threw" ELSE "done",
                                       !.spawned = st.spawned,
                                       !.after = st.running]]
        /\ loadedSceneWorkers' = st.workers
  /\ PortableFrame

PortableAtRest == portable = [running |-> {}, calls |-> <<>>]

\* the experiences running when the first call is made, each with its scene
\* worker; a scene worker with the id of an experience that is not running
PortableInit ==
  /\ \E running \in SUBSET PortableIds :
       /\ portable = [running |-> running, calls |-> <<>>]
       /\ \E other \in SUBSET (PortableIds \ running) :
            loadedSceneWorkers = running \cup other
  /\ commsIsland = NoIsland
  /\ sceneLog = <<>>

(***************************************************************************)
(* ExperimentalAPI: the CRDT messages of a scene                           *)
(***************************************************************************)
MaxMessages == 3

MaxCrdtCalls == 3

\* arrays are the arrays ctx.crdtMessages has referred to, ctx the one it
\* refers to now, queued the number of messages queued so far; a call holds
\* the array it returned (data), what that array held when it returned
\* (atCall) and what its caller found in it (read)
CrdtAtRest == crdt = [arrays |-> <<<<>>>>, ctx |-> 1, queued |-> 0, calls |-> <<>>]

CrdtFrame == UNCHANGED <<connVars, daoVars, position, unityVars, sceneVars,
                         website, parcel, portable, auth, loading>>

\* the renderer queues a message for the scene: ctx.crdtMessages.push(...)
crdtMessageQueued ==
  /\ crdt.queued < MaxMessages
  /\ crdt' = [crdt EXCEPT !.queued = @ + 1,
                          !.arrays[crdt.ctx] = Append(@, crdt.queued + 1)]
  /\ CrdtFrame

\* messageFromRenderer: "if (data.length) ctx.crdtMessages = []"
replaces(data) == Len(data) # 0

\* messageFromRenderer(_, ctx)
messageFromRenderer ==
  /\ Len(crdt.calls) < MaxCrdtCalls
  /\ LET data == crdt.ctx
         call == [data |-> data, atCall |-> crdt.arrays[data], isRead |-> FALSE,
                  read |-> <<>>]
     IN crdt' = IF replaces(crdt.arrays[data])
                  THEN [crdt EXCEPT !.arrays = Append(@, <<>>),
                                    !.ctx = Len(crdt.arrays) + 1,
                                    !.calls = Append(@, call)]
                  ELSE [crdt EXCEPT !.calls = Append(@, call)]
  /\ CrdtFrame

\* the caller of messageFromRenderer reads the list it was returned
responseRead(i) ==
  /\ ~crdt.calls[i].isRead
  /\ crdt' = [crdt EXCEPT !.calls[i] = [@ EXCEPT !.isRead = TRUE,
                                                 !.read = crdt.arrays[crdt.calls[i].data]]]
  /\ CrdtFrame

(***************************************************************************)
(* kernel: authenticate() and the store                                    *)
(***************************************************************************)
MaxAuthCalls == 2

LoginStates == {"LOADING", "WAITING_PROVIDER", "SIGNATURE_PENDING", "COMPLETED"}

\* loginState is session.loginState, listeners the listeners subscribed to
\* the store (in the order of their subscription), keeps whether
\* session.loginState is still WAITING_PROVIDER when the listeners of a
\* dispatched authenticate action are called; a call holds the login states
\* in which it has dispatched the action
AuthAtRest ==
  auth = [loginState |-> "LOADING", listeners |-> <<>>, keeps |-> TRUE, calls |-> <<>>]

AuthFrame == UNCHANGED <<connVars, daoVars, position, unityVars, sceneVars,
                         website, parcel, portable, crdt, loading>>

RECURSIVE notifyListeners(_, _)
RECURSIVE dispatchAuthenticate(_, _)

\* the listener of a call: "if (loginState === LoginState.WAITING_PROVIDER)
\* { unsubscribe(); store.dispatch(authenticate(provider, isGuest)) }"
unsubscribe(listeners, c) == SelectSeq(listeners, LAMBDA l : l # c)

listener(st, c) ==
  IF st.loginState = "WAITING_PROVIDER"
    THEN dispatchAuthenticate([st EXCEPT !.listeners = unsubscribe(@, c)], c)
    ELSE st

\* store.dispatch(action): after the reducer, the listeners subscribed when
\* the dispatch began are called in order, also those unsubscribed meanwhile
notifyListeners(st, snapshot) ==
  IF snapshot = <<>> THEN st
  ELSE notifyListeners(listener(st, Head(snapshot)), Tail(snapshot))

\* store.dispatch(authenticate(provider, isGuest)) by a call
dispatchAuthenticate(st, c) ==
  LET reduced == [st EXCEPT !.calls[c].dispatched = Append(@, st.loginState),
                            !.loginState = IF st.keeps THEN @ ELSE "SIGNATURE_PENDING"]
  IN notifyListeners(reduced, reduced.listeners)

\* authenticate(provider, isGuest) of the kernel: authenticateWhenItsReady
authenticateWhenItsReady ==
  /\ Len(auth.calls) < MaxAuthCalls
  /\ \E keeps \in BOOLEAN :
       LET c == Len(auth.calls) + 1
           called == [auth EXCEPT !.keeps = keeps,
                                  !.calls = Append(@, [at |-> auth.loginState,
                                                       dispatched |-> <<>>])]
       IN auth' = IF auth.loginState = "WAITING_PROVIDER"
                    THEN dispatchAuthenticate(called, c)
                    ELSE [called EXCEPT !.listeners = Append(@, c)]
  /\ AuthFrame

\* an action is dispatched that sets session.loginState (or leaves it)
changeLoginState ==
  /\ \E next \in LoginStates, keeps \in BOOLEAN :
       /\ \/ next # auth.loginState
          \/ auth.listeners # <<>> /\ keeps # auth.keeps
       /\ LET changed == [auth EXCEPT !.loginState = next, !.keeps = keeps]
          IN auth' = notifyListeners(changed, changed.listeners)
  /\ AuthFrame

(***************************************************************************)
(* loading: the initial scene loading and the report of pending scenes     *)
(***************************************************************************)
LoadingIds == {"scene1", "scene2"}

\* the flags of SceneWorker.ready the report reads
ReadyStates == {"STARTED", "LOADING_FAILED"}

\* stage is session.loginState as far as onLoginCompleted reads it,
\* parcelLoadingStarted is state.renderer.parcelLoadingStarted, initialLoad,
\* pendingScenes and totalScenes are state.loading, workers is
\* loadedSceneWorkers in the order of the map, pc the position of
\* initialSceneLoading, selected the state its last select returned false on,
\* started the experienceStarted actions put, informed the last
\* informPendingScenes put with the workers and the scene ids it counted
LoadingAtRest ==
  loading = [stage |-> "LOADING", parcelLoadingStarted |-> FALSE,
             initialLoad |-> TRUE, pendingScenes |-> 0, totalScenes |-> 0,
             workers |-> <<>>, pc |-> "onLoginCompleted", selected |-> <<>>,
             started |-> 0, informed |-> <<>>]

LoadingFrame == UNCHANGED <<connVars, daoVars, position, unityVars, sceneVars,
                            website, parcel, portable, crdt, auth>>

\* shouldWaitForScenes(state) of waitForSceneLoads (the mutant does not wait
\* for a scene to load in the initial load)
shouldWaitWithoutScenes(st) ==
  IF ~st.parcelLoadingStarted THEN TRUE
  ELSE IF st.initialLoad /\ st.pendingScenes # 0 THEN TRUE
  ELSE st.pendingScenes # 0

shouldWaitForScenes(st) ==
  IF ~st.parcelLoadingStarted THEN TRUE
  ELSE IF st.initialLoad /\ (st.pendingScenes # 0 \/ st.totalScenes = 0) THEN TRUE
  ELSE st.pendingScenes # 0

\* "while (yield select(shouldWaitForScenes)) yield take(ACTIONS_FOR_LOADING)":
\* the select at the call and after each of the actions taken
waitForSceneLoads(st) ==
  IF st.pc # "take" THEN st
  ELSE IF shouldWaitForScenes(st) THEN st
  ELSE [st EXCEPT !.pc = "updateLoadingScreen",
                  !.selected = <<[stage |-> st.stage,
                                  parcelLoadingStarted |-> st.parcelLoadingStarted,
                                  initialLoad |-> st.initialLoad,
                                  pendingScenes |-> st.pendingScenes,
                                  totalScenes |-> st.totalScenes]>>]

\* the loop of handleReportPendingScenes over loadedSceneWorkers
RECURSIVE countScenes(_, _, _)
countScenes(workers, pendingScenes, countableScenes) ==
  IF workers = <<>> THEN [pendingScenes |-> pendingScenes, countableScenes |-> countableScenes]
  ELSE LET sceneWorker == Head(workers)
           shouldBeCounted == ~sceneWorker.persistent
           isPending == "STARTED" \notin sceneWorker.ready
           failedLoading == "LOADING_FAILED" \in sceneWorker.ready
       IN countScenes(Tail(workers),
                      IF shouldBeCounted /\ isPending /\ ~failedLoading
                        THEN pendingScenes \cup {sceneWorker.id} ELSE pendingScenes,
                      IF shouldBeCounted THEN countableScenes + 1 ELSE countableScenes)

\* handleReportPendingScenes: put(informPendingScenes(pendingScenes.size,
\* countableScenes)), the state.loading it leaves and the select that
\* PENDING_SCENES wakes
handleReportPendingScenes(st) ==
  LET counted == countScenes(st.workers, {}, 0)
      size == Cardinality(counted.pendingScenes)
  IN waitForSceneLoads([st EXCEPT
       !.pendingScenes = size,
       !.totalScenes = counted.countableScenes,
       !.informed = <<[pendingScenes |-> size,
                       countableScenes |-> counted.countableScenes,
                       ids |-> counted.pendingScenes,
                       workers |-> st.workers]>>])

LoadedIds(st) == {st.workers[k].id : k \in 1 .. Len(st.workers)}

\* CHANGE_LOGIN_STAGE with the stage COMPLETED
changeLoginStage ==
  /\ loading.stage # "COMPLETED"
  /\ loading' = waitForSceneLoads([loading EXCEPT !.stage = "COMPLETED"])
  /\ LoadingFrame

\* initialSceneLoading: onLoginCompleted returns, waitForSceneLoads is called
initialSceneLoading ==
  /\ loading.pc = "onLoginCompleted"
  /\ loading.stage = "COMPLETED"
  /\ loading' = waitForSceneLoads([loading EXCEPT !.pc = "take"])
  /\ LoadingFrame

\* PARCEL_LOADING_STARTED
parcelLoadingStarted ==
  /\ ~loading.parcelLoadingStarted
  /\ loading' = waitForSceneLoads([loading EXCEPT !.parcelLoadingStarted = TRUE])
  /\ LoadingFrame

\* SCENE_LOAD of a new scene worker
sceneLoad ==
  /\ \E id \in LoadingIds \ LoadedIds(loading), persistent \in BOOLEAN :
       loading' = handleReportPendingScenes(waitForSceneLoads(
                    [loading EXCEPT !.workers = Append(@, [id |-> id,
                                                           persistent |-> persistent,
                                                           ready |-> {}])]))
  /\ LoadingFrame

\* SCENE_START and SCENE_FAIL of a scene worker
sceneReady ==
  /\ \E k \in 1 .. Len(loading.workers), state \in ReadyStates :
       /\ state \notin loading.workers[k].ready
       /\ loading' = handleReportPendingScenes(
                       IF state = "LOADING_FAILED"
                         THEN waitForSceneLoads([loading EXCEPT !.workers[k].ready = @ \cup {state}])
                         ELSE [loading EXCEPT !.workers[k].ready = @ \cup {state}])
  /\ LoadingFrame

\* SCENE_CHANGED after a scene worker was unloaded
sceneChanged ==
  /\ \E id \in LoadedIds(loading) :
       loading' = handleReportPendingScenes(
                    [loading EXCEPT !.workers = SelectSeq(@, LAMBDA w : w.id # id)])
  /\ LoadingFrame

\* waitForSceneLoads: put(updateLoadingScreen())
updateLoadingScreen ==
  /\ loading.pc = "updateLoadingScreen"
  /\ loading' = [loading EXCEPT !.pc = "experienceStarted"]
  /\ LoadingFrame

\* initialSceneLoading: put(experienceStarted()), which ends the initial load
experienceStarted ==
  /\ loading.pc = "experienceStarted"
  /\ loading' = [loading EXCEPT !.pc = "done", !.started = @ + 1,
                                !.initialLoad = FALSE]
  /\ LoadingFrame

KernelAtRest ==
  /\ WebsiteAtRest
  /\ ParcelAtRest
  /\ PortableAtRest
  /\ CrdtAtRest
  /\ AuthAtRest
  /\ LoadingAtRest

OtherAtRest == PositionAtRest /\ UnityAtRest /\ SceneAtRest /\ KernelAtRest

\* the send methods of one connection, sendMessage settling in any order
SendNext ==
  \/ send
  \/ \E i \in 1 .. Len(calls) : sendMessageSettles(i)

\* one LighthouseWorldInstanceConnection under any interleaving of its calls
Init == ConnInit /\ DaoAtRest /\ OtherAtRest

Next == ConnNext

Spec == Init /\ [][Next]_vars

\* the rooms of one connection: setTopics and changeRealm calls, the
\* promises of the transports settling in any order
RoomsNext ==
  \/ setTopics
  \/ changeRealm
  \/ \E i \in 1 .. Len(calls) : changeRealmDisposeRejects(i)
  \/ \E i \in 1 .. Len(calls) : changeRealmInitializePeer(i)
  \/ \E i \in 1 .. Len(calls) : changeRealmConnectSettles(i)
  \/ \E i \in 1 .. Len(calls) : changeRealmSyncRooms(i)
  \/ \E k \in 1 .. Len(roomOps) : roomOpSettles(k)

RoomsInit == (\E type \in RoomTypes : ConnInitWith(type)) /\ DaoAtRest /\ OtherAtRest

SpecRooms == RoomsInit /\ [][RoomsNext]_vars

SpecSend == Init /\ [][SendNext]_vars

\* the packets a connection receives
InboundNext == peerCallback

SpecInbound == Init /\ [][InboundNext]_vars

\* the dao sagas; every step that is enabled is eventually taken by the saga
\* middleware or answered by the network
SpecDaoInit == DaoInit /\ ConnInit /\ OtherAtRest

SpecDao == SpecDaoInit /\ [][DaoNext]_vars /\ WF_vars(DaoSteps)

\* two reconnect requests in one session: TRIGGER_RECONNECT_REALM is
\* dispatched again while the task forked for the first one is running
ReconnectConfigs ==
  {c \in Configs :
     /\ c.network = "mainnet"
     /\ \/ c.PREVIEW
        \/ c.qsRealm = "A" /\ c.minCatalystVersion = V100 /\ c.addedServers # <<>>}

SpecReconnectInit == DaoInitWith(ReconnectConfigs, MaxRuns + 1) /\ ConnInit /\ OtherAtRest

SpecReconnect == SpecReconnectInit /\ [][DaoNext]_vars

\* a position through createPositionData and mapToPositionMessage
PositionNext ==
  \/ sendPositionData
  \/ receivePositionData

SpecPositionInit ==
  ConnInit /\ DaoAtRest /\ PositionInit /\ UnityAtRest /\ SceneAtRest /\ KernelAtRest

SpecPosition == SpecPositionInit /\ [][PositionNext]_vars

\* the scene events saga and the reducers of the store
SceneNext ==
  \/ setWorldContext
  \/ setCommsIsland

SpecSceneInit ==
  ConnInit /\ DaoAtRest /\ PositionAtRest /\ UnityAtRest /\ SceneInit /\ KernelAtRest

SpecScene == SpecSceneInit /\ [][SceneNext]_vars

\* the crash payload requests of one UnityInterface
CrashNext ==
  \/ CrashPayloadRequest
  \/ crashPayloadResponse
  \/ \E i \in 1 .. Len(crashRequests) : crashTimerFires(i)

SpecCrash == Init /\ [][CrashNext]_vars

\* loadWebsiteSystems, the login and the dispatches of SET_WORLD_CONTEXT
WebsiteNext ==
  \/ loadWebsiteSystems
  \/ unityInterfaceEnsured
  \/ MetaConfigurationInitialized
  \/ metaConfigurationEnsured
  \/ loginCompleted
  \/ onLoginCompletedResolves
  \/ takeSetWorldContext
  \/ realmInitializedResolves
  \/ sceneWorkersStarted

SpecWebsite == Init /\ [][WebsiteNext]_vars

\* the lifecycle manager's events and the reloadScene calls, the awaits of
\* the calls resuming in any order
ParcelNext ==
  \/ addDesiredParcel
  \/ removeDesiredParcel
  \/ reloadScene
  \/ \E t \in 1 .. Len(parcel.tasks) : setDesiredParcelScenesResumes(t)

SpecParcelInit ==
  /\ ConnInit /\ DaoAtRest /\ PositionAtRest /\ UnityAtRest /\ WebsiteAtRest
  /\ ParcelInit /\ PortableAtRest /\ CrdtAtRest /\ AuthAtRest /\ LoadingAtRest

SpecParcel == SpecParcelInit /\ [][ParcelNext]_vars

\* the calls of declareWantedPortableExperiences, their sleeps resolving in
\* any order
PortableNext ==
  \/ declareWantedPortableExperiences
  \/ \E t \in 1 .. Len(portable.calls) : sleepResolves(t)

SpecPortableInit ==
  /\ ConnInit /\ DaoAtRest /\ PositionAtRest /\ UnityAtRest /\ WebsiteAtRest
  /\ ParcelAtRest /\ PortableInit /\ CrdtAtRest /\ AuthAtRest /\ LoadingAtRest

SpecPortable == SpecPortableInit /\ [][PortableNext]_vars

\* the messages queued for one scene and its messageFromRenderer calls
CrdtNext ==
  \/ crdtMessageQueued
  \/ messageFromRenderer
  \/ \E i \in 1 .. Len(crdt.calls) : responseRead(i)

SpecCrdt == Init /\ [][CrdtNext]_vars

\* the authenticate() calls of the kernel and the changes of the login state
AuthNext ==
  \/ authenticateWhenItsReady
  \/ changeLoginState

SpecAuth == Init /\ [][AuthNext]_vars

\* the initial scene loading and the scene workers it waits for
LoadingNext ==
  \/ changeLoginStage
  \/ initialSceneLoading
  \/ parcelLoadingStarted
  \/ sceneLoad
  \/ sceneReady
  \/ sceneChanged
  \/ updateLoadingScreen
  \/ experienceStarted

SpecLoading == Init /\ [][LoadingNext]_vars

(***************************************************************************)
(* Claims about the connection (checked under Spec)                        *)
(***************************************************************************)
CallIds == 1 .. Len(calls)

\* C1: once every connect / changeRealm / disconnect call has settled, at
\* most one transport created by the connection has not been disposed.
C1_AtMostOneLiveTransport ==
  AllSettled => Cardinality(LivePeers) <= 1

\* the calls are one changeRealm, call i, made while a connect() was still
\* awaiting the old transport, and connect() calls
ChangeRealmDuringConnect(i) ==
  /\ calls[i].kind = "changeRealm"
  /\ calls[i].duringConnect
  /\ \A j \in CallIds \ {i} : calls[j].kind = "connect"

Returned(run) == Has(run, "selectRealm:return")

\* the query-parameter realm resolved and checkValidRealm returned true
ConfiguredValid(run) == run.resolved # NoRealm /\ Has(run, "valid")

ReadCachedRealm(run) == Has(run, "getFromPersistentStorage:realm") /\ run.pc # "readRealmCache"

Scanned(run) == Has(run, "catalystRealmsScanRequested") \/ Has(run, "fetchCatalystRealms")

LastThree(run) == SubSeq(run.trace, Len(run.trace) - 2, Len(run.trace))

\* C3: whenever the URL names a realm that resolves against the candidates
\* and passes checkValidRealm, selectRealm returns that realm, whatever the
\* cached last realm is: the cache is not read and the algorithm not run.
C3_ConfiguredRealmFirst ==
  \A r \in Runs :
    (ConfiguredValid(runs[r]) /\ runs[r].pc # "ping")
      => /\ Returned(runs[r])
         /\ runs[r].result = runs[r].resolved
         /\ ~Has(runs[r], "getFromPersistentStorage:realm")
         /\ ~Has(runs[r], "pickCatalystRealm")

\* C3 witness: a valid realm of the URL was committed although another realm
\* is cached
C3_Witness ==
  \E r \in Runs :
    /\ ConfiguredValid(runs[r])
    /\ runs[r].pc = "done"
    /\ runs[r].triggerCache # NoRealm
    /\ runs[r].triggerCache # runs[r].resolved
    /\ runs[r].committed = runs[r].resolved

\* C4: with no valid query-parameter realm and no cached realm, selectRealm
\* returns the realm of the candidate picked by the algorithm.
C4_AlgorithmPickReturned ==
  \A r \in Runs :
    (Has(runs[r], "pickCatalystRealm") /\ Returned(runs[r]))
      => /\ runs[r].picked # NoRealm
         /\ runs[r].result = runs[r].picked

\* a reconnect requested with no query-parameter realm and a cached realm
CachedNoParameter(run) ==
  /\ ~config.PREVIEW
  /\ config.qsRealm = ""
  /\ run.triggerCache # NoRealm
  /\ Has(run, "establishingComms")

RECURSIVE AfterCacheRead(_)
AfterCacheRead(trace) ==
  IF trace = <<>> THEN <<>>
  ELSE IF Head(trace) = "getFromPersistentStorage:realm" THEN Tail(trace)
  ELSE AfterCacheRead(Tail(trace))

\* C6: when selectRealm falls to the cached realm it returns the cached
\* object unchanged; nothing validates it (no checkValidRealm, no ping after
\* the read) and the algorithm is not run.
C6_CachedRealmAsIs ==
  \A r \in Runs :
    (ReadCachedRealm(runs[r]) /\ runs[r].cachedRealm # NoRealm)
      => /\ Returned(runs[r])
         /\ runs[r].result = runs[r].cachedRealm
         /\ ~Has(runs[r], "pickCatalystRealm")
         /\ \A k \in 1 .. Len(AfterCacheRead(runs[r].trace)) :
              AfterCacheRead(runs[r].trace)[k] \notin
                {"checkValidRealm", "ping", "valid", "invalid", "pickCandidate"}
         /\ config.qsRealm = "" => ~Has(runs[r], "checkValidRealm")

\* C6 witness: the realm of the URL was invalid and the cached realm was
\* committed
C6_Witness ==
  \E r \in Runs :
    /\ Has(runs[r], "invalid")
    /\ runs[r].cachedRealm # NoRealm
    /\ runs[r].pc = "done"
    /\ runs[r].committed = runs[r].cachedRealm

\* selectRealm returned no realm, or threw
SelectFailed(run) ==
  \/ Returned(run) /\ run.result = NoRealm
  \/ Has(run, "selectRealm:throw")

\* C7: outside preview mode, when selectRealm returns no realm or throws, the
\* fatal error is reported and shown, the error is rethrown, and
\* changeRealmObject is not called in that run.
C7_NoRealmIsFatal ==
  \A r \in Runs :
    (~config.PREVIEW /\ SelectFailed(runs[r]))
      => /\ runs[r].pc = "failed"
         /\ LastThree(runs[r]) = <<"ReportFatalErrorWithCatalystPayload",
                                   "BringDownClientAndShowError", "rethrow">>
         /\ ~Has(runs[r], "changeRealmObject")
         /\ ~Has(runs[r], "waitForExplorerIdentity")

\* C7 witness: a run ended in the fatal error after selectRealm returned no
\* realm
C7_Witness ==
  \E r \in Runs :
    /\ ~config.PREVIEW
    /\ Returned(runs[r])
    /\ runs[r].result = NoRealm
    /\ runs[r].pc = "failed"
    /\ Has(runs[r], "BringDownClientAndShowError")

\* C8: every TRIGGER_RECONNECT_REALM eventually ends with changeRealmObject
\* called or with the fatal error shown.
C8_EveryReconnectEnds ==
  \A r \in 1 .. MaxRuns :
    (runs[r].pc # "idle")
      ~> (Has(runs[r], "changeRealmObject") \/ Has(runs[r], "BringDownClientAndShowError"))

PingedVersion(run) == IF run.pingVersion = NoVersion THEN V000 ELSE run.pingVersion

\* C9: a v2 realm of the URL is selected only if it has a hostname, its ping
\* returned OK and the pinged version (0.0.0 when absent) is >= the minimum,
\* if one is configured; a realm of another protocol is accepted without a
\* ping; an invalid realm makes selection go on with the cached realm and
\* then the algorithm.
C9_CheckValidRealm ==
  \A r \in Runs :
    /\ (ConfiguredValid(runs[r]) /\ runs[r].resolved.protocol = "v2")
         => /\ runs[r].resolved.hostname # ""
            /\ Has(runs[r], "ping")
            /\ runs[r].pingStatus = "OK"
            /\ \/ config.minCatalystVersion = NoVersion
               \/ gte(PingedVersion(runs[r]), config.minCatalystVersion)
    /\ (Has(runs[r], "ping") /\ runs[r].pc # "ping" /\ runs[r].pingStatus = "OK"
          /\ (config.minCatalystVersion = NoVersion
                \/ gte(PingedVersion(runs[r]), config.minCatalystVersion)))
         => Has(runs[r], "valid")
    /\ (Has(runs[r], "checkValidRealm") /\ runs[r].resolved.protocol # "v2")
         => /\ ~Has(runs[r], "ping")
            /\ Has(runs[r], "valid")
    /\ Has(runs[r], "invalid")
         => /\ Has(runs[r], "getFromPersistentStorage:realm")
            /\ ~Has(runs[r], "selectRealm:throw")
            /\ Returned(runs[r])
                 => \/ runs[r].cachedRealm # NoRealm /\ runs[r].result = runs[r].cachedRealm
                    \/ runs[r].cachedRealm = NoRealm /\ Has(runs[r], "pickCatalystRealm")

\* C9 witness: a v2 realm whose ping was not OK was passed over and the
\* algorithm ran
C9_Witness ==
  \E r \in Runs :
    /\ runs[r].resolved.protocol = "v2"
    /\ runs[r].resolved.hostname # ""
    /\ runs[r].pingStatus = "UNREACHABLE"
    /\ Has(runs[r], "invalid")
    /\ Has(runs[r], "pickCatalystRealm")

AllCands == {CandA, CandB, CandC, CandD}

FetchFailed(run) ==
  Has(run, "fetchCatalystRealms:throw") \/ Has(run, "fetchCatalystStatuses:throw")

\* C11: when fetchCatalystRealms or fetchCatalystStatuses fails, no
\* SET_CATALYST_CANDIDATES / SET_ADDED_CATALYST_CANDIDATES is dispatched for
\* that fetch, and the candidates of the store and the persisted entries
\* stay as the failing fetch found them: a non-empty list is not replaced by
\* an empty one.
C11_FailedFetchKeepsCandidates ==
  \A r \in Runs :
    /\ Has(runs[r], "fetchCatalystRealms:throw")
         => /\ ~Has(runs[r], "setCatalystCandidates")
            /\ ~Has(runs[r], "setAddedCatalystCandidates")
    /\ Has(runs[r], "fetchCatalystStatuses:throw")
         => ~Has(runs[r], "setAddedCatalystCandidates")
    /\ FetchFailed(runs[r])
         => /\ persistentStorage = runs[r].atFailure.storage
            /\ catalystCandidates = runs[r].atFailure.candidates
            /\ addedCatalystCandidates = runs[r].atFailure.added

\* C11 witness: fetchCatalystRealms failed in a session whose persisted
\* candidate list is not empty
C11_Witness ==
  \E r \in Runs :
    /\ Has(runs[r], "fetchCatalystRealms:throw")
    /\ runs[r].pc = "crashed"
    /\ storageCandidates.present
    /\ storageCandidates.list # <<>>

\* C12: a failure of saveToPersistentStorage in cacheCatalystRealm or
\* cacheCatalystCandidates is not thrown out of the handler, so that daoSaga
\* is not terminated by it and goes on handling the later actions.
C12_SaveFailureNotThrown == saveFailure # "thrown"

CandidatesDispatched ==
  \E r \in Runs :
    Has(runs[r], "setCatalystCandidates") \/ Has(runs[r], "setAddedCatalystCandidates")

CommittedRealms == {runs[r].committed : r \in {q \in Runs : Has(runs[q], "setWorldContext")}}

First(run, event) ==
  IF Has(run, event)
    THEN CHOOSE k \in 1 .. Len(run.trace) :
           /\ run.trace[k] = event
           /\ \A j \in 1 .. (k - 1) : run.trace[j] # event
    ELSE 0

\* b happened in the run only after a had
After(run, a, b) == Has(run, b) => (Has(run, a) /\ First(run, a) < First(run, b))

\* the order of the steps up to selectRealm, and of the last two steps
OrderedToSelection(run) ==
  /\ Has(run, "establishingComms") => metaReady
  /\ After(run, "waitForMetaConfigurationInitialization", "establishingComms")
  /\ Scanned(run) => run.startEmpty
  /\ After(run, "establishingComms", "catalystRealmsScanRequested")
  /\ After(run, "catalystRealmsScanRequested", "fetchCatalystRealms")
  /\ After(run, "establishingComms", "selectRealm")
  /\ (Scanned(run) /\ Has(run, "selectRealm"))
       => First(run, "setAddedCatalystCandidates") < First(run, "selectRealm")
  /\ (run.startEmpty /\ Has(run, "selectRealm")) => Scanned(run)
  /\ Has(run, "changeRealmObject") => identityReady
  /\ After(run, "waitForExplorerIdentity", "changeRealmObject")

\* C14 as stated: in every run the configuration is ready before
\* establishingComms, candidates are fetched only when the store has none,
\* then selectRealm runs and returns, then waitForExplorerIdentity, and only
\* then changeRealmObject.
C14_OrderInEveryRun ==
  \A r \in Runs :
    /\ OrderedToSelection(runs[r])
    /\ After(runs[r], "selectRealm", "selectRealm:return")
    /\ After(runs[r], "selectRealm:return", "waitForExplorerIdentity")
    /\ After(runs[r], "selectRealm:return", "changeRealmObject")

\* C14 amended: that order holds in every run outside preview mode; in
\* preview mode nothing is fetched and selectRealm does not run: the empty
\* candidate lists are stored, then the identity is waited for, and only
\* then changeRealmObject is called, with the preview realm.
C14_OrderOutsidePreview ==
  \A r \in Runs :
    /\ OrderedToSelection(runs[r])
    /\ ~config.PREVIEW
         => /\ After(runs[r], "selectRealm", "selectRealm:return")
            /\ After(runs[r], "selectRealm:return", "waitForExplorerIdentity")
            /\ After(runs[r], "selectRealm:return", "changeRealmObject")
    /\ config.PREVIEW
         => /\ ~Scanned(runs[r])
            /\ ~Has(runs[r], "selectRealm")
            /\ After(runs[r], "setAddedCatalystCandidates", "waitForExplorerIdentity")
            /\ Has(runs[r], "changeRealmObject") => runs[r].committed = PreviewRealm

\* C14 witness: a run outside preview mode fetched the candidates, selected
\* a realm and committed it
C14_Witness ==
  \E r \in Runs :
    /\ ~config.PREVIEW
    /\ Has(runs[r], "fetchCatalystRealms")
    /\ Has(runs[r], "selectRealm:return")
    /\ Has(runs[r], "changeRealmObject")
    /\ runs[r].pc = "done"

(***************************************************************************)
(* Claims about connect and disconnect (checked under Spec)                *)
(***************************************************************************)
RanConnect(c) == c.count # -1

Reported(c, st) == \E k \in 1 .. Len(c.reports) : c.reports[k] = st

\* C15: a connect() that finds connectedCount() > 0 reports 'connected' and
\* returns true without awaiting the transport; one that finds 0 reports
\* 'connected' (and returns true) exactly when its
\* awaitConnectionEstablished has resolved, so never before.
C15_ConnectedOnlyWhenEstablished ==
  \A i \in CallIds :
    RanConnect(calls[i]) =>
      /\ calls[i].count > 0
           => /\ calls[i].established = "skipped"
              /\ calls[i].reports = <<"connected">>
              /\ calls[i].returned = "true"
      /\ calls[i].count = 0
           => /\ calls[i].established \in {"pending", "resolved", "rejected"}
              /\ Reported(calls[i], "connected") <=> calls[i].established = "resolved"
              /\ calls[i].returned = "true" <=> calls[i].established = "resolved"

\* C15 witness: one connect() returned at once on a connected transport,
\* another is still awaiting and has reported nothing
C15_Witness ==
  \E i \in CallIds, j \in CallIds :
    /\ calls[i].kind = "connect"
    /\ calls[i].count = 1
    /\ calls[i].pc = "done"
    /\ calls[j].kind = "connect"
    /\ calls[j].count = 0
    /\ calls[j].established = "pending"
    /\ calls[j].reports = <<>>

\* C16: a connect() whose awaitConnectionEstablished failed has reported
\* exactly one status, 'realm-full' if the error carries responseJson.status
\* 'layer_is_full' and 'error' otherwise, has not reported 'connected', and
\* has thrown the error it caught.
C16_ConnectFailureReported ==
  \A i \in CallIds :
    calls[i].established = "rejected" =>
      /\ calls[i].error \in ConnectErrors
      /\ calls[i].reports =
           <<IF calls[i].error = "layer_is_full" THEN "realm-full" ELSE "error">>
      /\ calls[i].returned = ""
      /\ calls[i].pc = "rejected"
      /\ calls[i].thrown = calls[i].error

\* C16 witness: one connect() failed because the layer is full, another
\* with an error whose responseJson has another status
C16_Witness ==
  \E i \in CallIds, j \in CallIds :
    /\ calls[i].established = "rejected"
    /\ calls[i].error = "layer_is_full"
    /\ calls[i].reports = <<"realm-full">>
    /\ calls[j].established = "rejected"
    /\ calls[j].error = "not_found"
    /\ calls[j].reports = <<"error">>

\* calls i and i + 1 are two disconnect() calls, the first made when every
\* earlier call had settled, and no call was made since
DisconnectedTwice(i) ==
  /\ i + 1 = Len(calls)
  /\ calls[i].kind = "disconnect"
  /\ calls[i + 1].kind = "disconnect"
  /\ calls[i].quiet

IsPrefix(a, b) == Len(a) <= Len(b) /\ SubSeq(b, 1, Len(a)) = a

\* the steps of a changeRealm up to the 'connected' report of its connect()
ChangeRealmOrder ==
  <<<<"status", "connecting">>, <<"dispose", "called">>, <<"dispose", "resolved">>,
    <<"createPeer", "new">>, <<"status", "connecting">>, <<"status", "connected">>>>

\* the room calls issued by call i
OpsOf(i) == SelectSeq(roomOps, LAMBDA op : op.call = i)

JoinsOf(i) == SelectSeq(roomOps, LAMBDA op : op.call = i /\ op.op = "joinRoom")

\* call i is a changeRealm and no other changeRealm was called
SoleChangeRealm(i) ==
  /\ calls[i].kind = "changeRealm"
  /\ \A j \in CallIds \ {i} : calls[j].kind # "changeRealm"

Synced(c) == c.pc \in {"awaitRooms", "done"} \/ c.failedAt = "rooms"

\* C17: a changeRealm reports 'connecting', then the disposal of the old
\* transport completes, then the new transport is created, then connect()
\* reports 'connected', and only then joinRoom is issued, on the new
\* transport, for exactly the rooms of this.rooms that transport has not
\* joined; changeRealm does not change this.rooms; when dispose or connect
\* fails the call rejects at that step and issues no room call.
C17_ChangeRealmOrder ==
  \A i \in CallIds :
    SoleChangeRealm(i) =>
      LET c == calls[i]
          t == c.trace
      IN /\ IF c.failedAt \in {"dispose", "connect"}
               THEN /\ IsPrefix(SubSeq(t, 1, Len(t) - 1), ChangeRealmOrder)
                    /\ Len(t) <= Len(ChangeRealmOrder)
                    /\ t[Len(t)] \in {<<"dispose", "rejected">>, <<"status", "error">>,
                                      <<"status", "realm-full">>}
                    /\ c.pc = "rejected"
                    /\ OpsOf(i) = <<>>
               ELSE IF Len(t) <= Len(ChangeRealmOrder)
                 THEN IsPrefix(t, ChangeRealmOrder)
                 ELSE /\ IsPrefix(ChangeRealmOrder, t)
                      /\ \A k \in (Len(ChangeRealmOrder) + 1) .. Len(t) :
                           t[k][1] \in {"joinRoom", "leaveRoom"}
         /\ c.old \in disposed
         /\ c.pc \notin {"awaitDispose", "rejected"} => (c.p # c.old /\ peer = c.p)
         /\ Synced(c)
              => /\ \A room \in InSeq(c.syncRooms) \ c.syncCurrent :
                      \E k \in 1 .. Len(JoinsOf(i)) : JoinsOf(i)[k].room = room
                 /\ \A k \in 1 .. Len(JoinsOf(i)) :
                      /\ JoinsOf(i)[k].room \in InSeq(c.syncRooms) \ c.syncCurrent
                      /\ JoinsOf(i)[k].peer = c.p
                 /\ \A k \in 1 .. Len(OpsOf(i)) : <<OpsOf(i)[k].op, OpsOf(i)[k].room>> \in InSeq(t)
         /\ ~Synced(c) => OpsOf(i) = <<>>
         /\ i = Len(calls)
              => /\ rooms = c.before.rooms
                 /\ Synced(c) => c.syncRooms = c.before.rooms

\* C17 witness: after setTopics a changeRealm has completed and the room of
\* this.rooms is joined on the new transport
C17_Witness ==
  \E i \in CallIds :
    /\ SoleChangeRealm(i)
    /\ calls[i].pc = "done"
    /\ rooms # <<>>
    /\ JoinsOf(i) # <<>>
    /\ InSeq(rooms) \subseteq currentRooms[calls[i].p]
    /\ calls[i].p # calls[i].old

(***************************************************************************)
(* Claims about the messages (checked under SpecSend)                      *)
(***************************************************************************)
SendNames == {method.name : method \in SendMethods}

\* C19: a send method returns normally when sendMessage fails with an
\* error whose message starts with the room-not-joined text, and the fields
\* of the connection are as they were; it throws any other error of
\* sendMessage as it caught it.
C19_RoomNotJoinedIgnored ==
  \A i \in CallIds :
    (calls[i].kind \in SendNames /\ calls[i].error # "none")
      => /\ calls[i].error \in {"room_not_joined", "room_not_joined_r1"}
              => /\ calls[i].pc = "done"
                 /\ calls[i].thrown = "none"
         /\ calls[i].error \in {"wrapped", "timeout", "no_message"}
              => /\ calls[i].pc = "rejected"
                 /\ calls[i].thrown = calls[i].error
         /\ Fields = calls[i].before

\* C19 witness: sendChatMessage returned although sendMessage failed with
\* the room-not-joined error, and sendVoiceMessage threw a timeout
C19_Witness ==
  \E i \in CallIds, j \in CallIds :
    /\ calls[i].kind = "sendChatMessage"
    /\ calls[i].error = "room_not_joined_r1"
    /\ calls[i].pc = "done"
    /\ calls[j].kind = "sendVoiceMessage"
    /\ calls[j].error = "timeout"
    /\ calls[j].pc = "rejected"

(***************************************************************************)
(* Claims about the packets (checked under SpecInbound)                    *)
(***************************************************************************)
\* the handler registered for each kind of packet
KindHandler ==
  [CHAT_DATA |-> "chatHandler", POSITION_DATA |-> "positionHandler",
   SCENE_DATA |-> "sceneMessageHandler", PROFILE_DATA |-> "profileHandler",
   VOICE_DATA |-> "voiceHandler", PROFILE_REQUEST_DATA |-> "profileRequestHandler",
   PROFILE_RESPONSE_DATA |-> "profileResponseHandler"]

KnownKind(packet) == packet.decodes /\ packet.dataCase \in DOMAIN KindHandler

\* C20 as stated: for every packet of a known kind exactly the handler of
\* that kind is called, once; for a packet of an unknown or unset kind no
\* handler is called; nothing is thrown.
C20_ExactlyOneHandler ==
  \A k \in 1 .. Len(received) :
    /\ KnownKind(received[k].packet)
         => received[k].handlers = <<KindHandler[received[k].packet.dataCase]>>
    /\ ~KnownKind(received[k].packet) => received[k].handlers = <<>>
    /\ ~received[k].thrown

\* C20 amended: that holds for every packet whose data maps to a package;
\* for a profile response whose serialized profile is not JSON and for a
\* position for which setPeerPosition throws, as for a payload that does
\* not deserialize and for an unknown or unset kind, no handler is called
\* and the packet is logged and dropped; in no case is more than one
\* handler called, or anything thrown.
C20_OneHandlerWhenMapped ==
  \A k \in 1 .. Len(received) :
    LET packet == received[k].packet
        mapped == /\ packet.dataCase # "PROFILE_RESPONSE_DATA" \/ packet.json
                  /\ packet.dataCase # "POSITION_DATA" \/ ~packet.positionThrows
    IN /\ (KnownKind(packet) /\ mapped)
            => received[k].handlers = <<KindHandler[packet.dataCase]>>
       /\ (~KnownKind(packet) \/ ~mapped)
            => /\ received[k].handlers = <<>>
               /\ received[k].logged \in {"warn", "error"}
       /\ Len(received[k].handlers) <= 1
       /\ ~received[k].thrown

\* C20 witness: a scene packet went to the scene handler and a packet of an
\* unknown kind was dropped
C20_Witness ==
  \E j \in 1 .. Len(received), k \in 1 .. Len(received) :
    /\ received[j].packet.dataCase = "SCENE_DATA"
    /\ received[j].packet.decodes
    /\ received[j].handlers = <<"sceneMessageHandler">>
    /\ received[k].packet.dataCase = "UNKNOWN"
    /\ received[k].handlers = <<>>
    /\ received[k].logged = "warn"

\* the kind of packet each data case carries
KindName ==
  [CHAT_DATA |-> "chat", POSITION_DATA |-> "position", SCENE_DATA |-> "scene",
   PROFILE_DATA |-> "profile", VOICE_DATA |-> "voice",
   PROFILE_REQUEST_DATA |-> "profileRequest",
   PROFILE_RESPONSE_DATA |-> "profileResponse"]

\* C21: the envelope handed to the handler of a packet of kind K has the
\* sender the transport reported, the time field of the message, and type K.
C21_EnvelopeOfKind ==
  \A k \in 1 .. Len(received) :
    \A e \in 1 .. Len(received[k].envelopes) :
      /\ received[k].envelopes[e].sender = received[k].packet.sender
      /\ received[k].envelopes[e].time = received[k].packet.time
      /\ received[k].envelopes[e].type = KindName[received[k].packet.dataCase]

\* a packet peerCallback cannot dispatch, or whose dispatch throws
Faulty(packet) == ~KnownKind(packet) \/ errorAt(packet) # ""

\* C22: peerCallback throws for no packet, leaves the transport and the
\* reported status as they were, and dispatches every packet that comes
\* after a faulty one to the handler of its kind.
C22_NoPacketTearsDown ==
  /\ peer = 0 /\ nPeers = 1 /\ disposed = {} /\ status = "connecting"
  /\ \A k \in 1 .. Len(received) :
       /\ ~received[k].thrown
       /\ ((\E j \in 1 .. (k - 1) : Faulty(received[j].packet))
             /\ ~Faulty(received[k].packet))
            => received[k].handlers = <<KindHandler[received[k].packet.dataCase]>>

\* C22 witness: a chat packet was dispatched after a position packet for
\* which setPeerPosition threw
C22_Witness ==
  /\ Len(received) >= 2
  /\ errorAt(received[1].packet) = "setPeerPosition"
  /\ received[1].handlers = <<>>
  /\ received[2].packet.dataCase = "CHAT_DATA"
  /\ received[2].handlers = <<"chatHandler">>
  /\ peer \notin disposed

(***************************************************************************)
(* Claims about setTopics (checked under SpecRooms)                        *)
(***************************************************************************)
\* call i is a setTopics made when every earlier call and every joinRoom and
\* leaveRoom had settled, all its own joinRoom and leaveRoom calls have
\* resolved, and the next call is a setTopics with the same list
RepeatedSetTopics(i) ==
  /\ i + 1 \in CallIds
  /\ calls[i].kind = "setTopics"
  /\ calls[i + 1].kind = "setTopics"
  /\ calls[i].quiet
  /\ calls[i].roomsSettled
  /\ calls[i + 1].roomsSettled
  /\ \A k \in 1 .. Len(OpsOf(i)) : OpsOf(i)[k].state = "resolved"
  /\ calls[i + 1].syncRooms = calls[i].syncRooms

\* C23: a setTopics(X) that follows a setTopics(X) whose joinRoom and
\* leaveRoom calls have all resolved issues no joinRoom and no leaveRoom.
C23_SetTopicsIdempotent ==
  \A i \in CallIds :
    RepeatedSetTopics(i)
      => /\ OpsOf(i + 1) = <<>>
         /\ calls[i + 1].pc = "done"

\* C23 witness: setTopics(['r1', 'r2']) joined both rooms and the same call
\* made again issued nothing
C23_Witness ==
  \E i \in CallIds :
    /\ RepeatedSetTopics(i)
    /\ calls[i].syncRooms = <<"r1", "r2">>
    /\ Len(OpsOf(i)) = 2
    /\ currentRooms[peer] = {"r1", "r2"}
    /\ OpsOf(i + 1) = <<>>

\* the rooms for which call i issued op, in the order of the calls
RoomsOf(i, op) ==
  LET ops == SelectSeq(roomOps, LAMBDA o : o.call = i /\ o.op = op)
  IN [k \in 1 .. Len(ops) |-> ops[k].room]

\* C24: setTopics(X) issues joinRoom exactly for the rooms of X that are not
\* in currentRooms and leaveRoom exactly for the rooms of currentRooms that
\* are not in X, whatever currentRooms lists (no joinRoom throwing); when
\* all of them have resolved the rooms of the transport are those of X.
C24_ExactDifference ==
  \A i \in CallIds :
    (calls[i].kind = "setTopics" /\ ~Threw(OpsOf(i)))
      => LET c == calls[i]
         IN /\ InSeq(RoomsOf(i, "joinRoom")) = InSeq(c.syncRooms) \ c.syncCurrent
            /\ InSeq(RoomsOf(i, "leaveRoom")) = c.syncCurrent \ InSeq(c.syncRooms)
            /\ (c.quiet /\ c.roomsSettled /\ i = Len(calls)
                  /\ \A k \in 1 .. Len(OpsOf(i)) : OpsOf(i)[k].state = "resolved")
                 => currentRooms[c.p] = InSeq(c.syncRooms)

\* C25: joinRoom is never issued for a room the transport has joined or for
\* which a joinRoom on that transport has not settled.
C25_NoDuplicateJoin ==
  \A k \in 1 .. Len(roomOps) :
    roomOps[k].op = "joinRoom"
      => /\ roomOps[k].room \notin roomOps[k].joined
         /\ roomOps[k].room \notin roomOps[k].inFlight

\* C26: every joinRoom and leaveRoom of a reconciliation is issued to the
\* transport, whichever of them fails and however it fails.
C26_FailureDoesNotBlock ==
  \A i \in CallIds :
    Len(OpsOf(i)) = Len(joining(calls[i].syncRooms, calls[i].syncCurrent))
                      + Len(leaving(calls[i].syncRooms, calls[i].syncCurrent))

(***************************************************************************)
(* Claims about the positions (checked under SpecPosition)                 *)
(***************************************************************************)
\* C27: mapToPositionMessage(createPositionData(p)) is p, component by
\* component: x, y, z, rotation x, y, z, w in that order and the immediate
\* flag.
C27_PositionRoundTrip ==
  position.stage = "positionMessage"
    => /\ Len(position.message) = 8
       /\ \A k \in 1 .. 8 : position.message[k] = position.p[k]

\* C27 witness: a position whose rotation x and w differ and whose immediate
\* flag is set has gone through both functions
C27_Witness ==
  /\ position.stage = "positionMessage"
  /\ position.p[4] # position.p[7]
  /\ position.p[1] # position.p[2]
  /\ position.p[8]
  /\ position.message = position.p

(***************************************************************************)
(* Claims about the delivery policies (checked under SpecSend)             *)
(***************************************************************************)
Optimistic(type, ttl, discardOlderThan, expirationTime) ==
  /\ type.policy = "optimistic"
  /\ type.ttl = ttl
  /\ type.discardOlderThan = discardOlderThan
  /\ type.expirationTime = expirationTime

\* C28: every send method hands sendMessage the policy of its kind: chat
\* the reliable one; position, parcel update and profile the unreliable one;
\* voice the optimistic one with ttl 5, discardOlderThan 2000 and expiration
\* 10000; scene messages and profile requests and responses the optimistic
\* one with ttl 10 and expiration 10000.
C28_PolicyOfKind ==
  \A i \in CallIds :
    LET kind == calls[i].kind
        type == calls[i].type
    IN /\ kind = "sendChatMessage" => type = reliable("chat")
       /\ kind \in {"sendPositionMessage", "sendParcelUpdateMessage",
                    "sendProfileMessage", "sendInitialMessage"}
            => type.policy = "unreliable"
       /\ type.policy = "unreliable"
            => type.name = CASE kind = "sendPositionMessage" -> "position"
                             [] kind = "sendParcelUpdateMessage" -> "parcelUpdate"
                             [] kind = "sendProfileMessage" -> "profile"
                             [] kind = "sendInitialMessage" -> "initialProfile"
                             [] OTHER -> ""
       /\ kind = "sendVoiceMessage" => Optimistic(type, 5, 2000, 10000)
       /\ kind = "sendParcelSceneCommsMessage"
            => /\ type.policy = "optimistic"
               /\ type.ttl = 10
               /\ type.expirationTime = 10000
       /\ kind \in {"sendProfileRequest", "sendProfileResponse"}
            => /\ type.policy = "optimistic"
               /\ type.ttl = 10
               /\ type.expirationTime = 10000
       /\ kind \in SendNames => type.policy \in {"reliable", "unreliable", "optimistic"}

\* C28 witness: a chat message went out reliable and a voice message
\* optimistic
C28_Witness ==
  \E i \in CallIds, j \in CallIds :
    /\ calls[i].kind = "sendChatMessage"
    /\ calls[i].type.policy = "reliable"
    /\ calls[i].pc = "done"
    /\ calls[j].kind = "sendVoiceMessage"
    /\ calls[j].type.ttl = 5
    /\ calls[j].pc = "done"

(***************************************************************************)
(* Claims about CrashPayloadRequest (checked under SpecCrash)              *)
(***************************************************************************)
\* the first of the events of a request that is of one of the kinds
FirstEvent(r, kinds) ==
  LET ks == {k \in 1 .. Len(r.events) : r.events[k][1] \in kinds}
  IN IF ks = {} THEN <<"", "">>
     ELSE r.events[CHOOSE k \in ks : \A j \in ks : k <= j]

\* C29 as stated: the promise resolves with the first payload notified
\* before the timer fires and rejects when the timer fires first; once it
\* has settled and the timer has fired the listener is not registered.
C29_ResolvesOrRejects ==
  \A i \in 1 .. Len(crashRequests) :
    LET r == crashRequests[i]
        first == FirstEvent(r, {"payload", "timer"})
    IN /\ first[1] = "payload" => (r.promise = "resolved" /\ r.value = first[2])
       /\ first[1] = "timer" => r.promise = "rejected"
       /\ (r.promise # "pending" /\ r.timer = "fired") => ~r.listener

\* C29 amended: that holds when SendMessageToUnity returns; when it throws
\* the promise is rejected at once, with its error, and stays rejected
\* whatever is notified later (the first of the throw, the payloads and the
\* timer decides the outcome, for good); in every case the listener is
\* registered at most until the timer fires or the next payload is notified.
C29_OutcomeDecidedOnce ==
  \A i \in 1 .. Len(crashRequests) :
    LET r == crashRequests[i]
        first == FirstEvent(r, {"threw", "payload", "timer"})
    IN /\ first[1] = "" => (r.promise = "pending" /\ r.listener)
       /\ first[1] = "payload" => (r.promise = "resolved" /\ r.value = first[2])
       /\ first[1] = "timer" => (r.promise = "rejected" /\ r.value = "")
       /\ first[1] = "threw"
            => (r.promise = "rejected" /\ r.value = "error" /\ r.sent = "threw")
       /\ r.sent # "threw" => first = FirstEvent(r, {"payload", "timer"})
       /\ r.timer = "fired" => ~r.listener
       /\ r.listener => FirstEvent(r, {"payload", "timer"})[1] = ""

\* C29 witness: a request answered inside SendMessageToUnity is resolved
\* with that payload after its timer has fired and a later payload was
\* notified, and another was rejected by its timer
C29_Witness ==
  \E i \in 1 .. Len(crashRequests), j \in 1 .. Len(crashRequests) :
    /\ crashRequests[i].sent = "answered"
    /\ crashRequests[i].promise = "resolved"
    /\ crashRequests[i].timer = "fired"
    /\ Len(crashRequests[i].events) >= 3
    /\ crashRequests[i].value # crashRequests[i].events[2][2]
    /\ ~crashRequests[i].listener
    /\ crashRequests[j].sent = "returned"
    /\ crashRequests[j].promise = "rejected"
    /\ FirstEvent(crashRequests[j], {"payload", "timer"})[1] = "timer"

ReplacedPendingConnect(i) ==
  /\ calls[i].kind = "changeRealm"
  /\ calls[i].pc = "done"
  /\ i = Len(calls)
  /\ \E j \in 1 .. (i - 1) :
       /\ calls[j].kind = "connect"
       /\ calls[j].p = calls[i].old
       /\ calls[j].established # "skipped"

\* C32: once a changeRealm that replaced the transport of a pending
\* connect() has settled successfully, the status last handed to the status
\* callback is 'connected', however the replaced connect() ends.
C32_StaleStatusNotDelivered ==
  \A i \in CallIds : ReplacedPendingConnect(i) => status = "connected"

(***************************************************************************)
(* Claims about the candidates cache (checked under SpecDao)               *)
(***************************************************************************)
\* C33: selectRealm does not fail at its read of the candidates cache: no
\* run throws out of selectRealm there, whether the entry of the network is
\* present or absent.
C33_AbsentCacheTreatedAsEmpty ==
  \A r \in Runs : ~Has(runs[r], "selectRealm:throw")

(***************************************************************************)
(* Claims about concurrent reconnects (checked under SpecReconnect)        *)
(***************************************************************************)
\* a task that has put establishingComms and whose changeRealmObject call
\* has not returned or thrown, its task not having ended otherwise
InProgress(run) ==
  /\ Has(run, "establishingComms")
  /\ run.pc \notin {"done", "failed", "crashed"}

\* C34: at most one selectAndReconnectRealm task is in progress at a time.
C34_OneReconnectAtATime ==
  Cardinality({r \in Runs : InProgress(runs[r])}) <= 1

(***************************************************************************)
(* Claims about the readiness gates (checked under SpecWebsite)            *)
(***************************************************************************)
\* the position of an event in what loadWebsiteSystems has done (0: absent)
At(event) ==
  IF \E k \in 1 .. Len(website.trace) : website.trace[k] = event
    THEN CHOOSE k \in 1 .. Len(website.trace) : website.trace[k] = event
    ELSE 0

\* C31: startUnitySceneWorkers is called only after onLoginCompleted and
\* realmInitialized have both resolved; waitForRealmInitialized returns
\* only on a realm that is set, having gone round its loop for every
\* SET_WORLD_CONTEXT that left the realm unset; without a profile after the
\* login the error is reported and startUnitySceneWorkers is never called.
C31_ReadinessGate ==
  /\ At("startUnitySceneWorkers") # 0
       => /\ website.login = "completed"
          /\ 0 < At("onLoginCompleted:resolved")
          /\ At("onLoginCompleted:resolved") < At("realmInitialized:resolved")
          /\ At("realmInitialized:resolved") < At("startUnitySceneWorkers")
          /\ website.gate = "returned"
  /\ website.gate = "returned" => website.gateRealm # NoRealm
  /\ website.gate = "take" => worldRealm = NoRealm
  /\ (website.profile = "missing" /\ At("onLoginCompleted:resolved") # 0)
       => /\ At("ReportFatalError") # 0
          /\ At("startUnitySceneWorkers") = 0
          /\ website.pc = "returned"

\* the gate has been passed after a SET_WORLD_CONTEXT without a realm and
\* one with a realm, and the scene workers are started
C31_Witness ==
  /\ website.taken = 2
  /\ website.gate = "returned"
  /\ website.pc = "returned"
  /\ At("startUnitySceneWorkers") # 0

(***************************************************************************)
(* Claims about the scene workers (checked under SpecParcel)               *)
(***************************************************************************)
ParcelSettled == \A t \in 1 .. Len(parcel.tasks) : parcel.tasks[t].pc # "await"

LogIds == 1 .. Len(parcel.log)

\* C35: once every call has settled, every desired parcel scene has a
\* worker and no parcel scene outside the desired set has one; a worker is
\* created only for a scene id that has none, and a worker stored for a
\* scene id that had one before is stored after that one was stopped.
C35_WorkersMatchDesired ==
  /\ ParcelSettled
       => /\ \A id \in InSeq(parcel.desired) : parcel.worker[id] # 0
          /\ \A id \in ParcelSceneIds \ InSeq(parcel.desired) : parcel.worker[id] = 0
  /\ \A k \in LogIds :
       parcel.log[k].e = "set"
         => \A j \in 1 .. (k - 1) :
              (parcel.log[j].e = "set" /\ parcel.log[j].id = parcel.log[k].id)
                => \E d \in (j + 1) .. (k - 1) :
                     /\ parcel.log[d].e = "dispose"
                     /\ parcel.log[d].id = parcel.log[j].id
                     /\ parcel.log[d].w = parcel.log[j].w

\* C36: setDesiredParcelScenes stops only workers of scenes that were in
\* the previous desired set and are not in the new one; the workers of
\* scenes that were never desired parcel scenes are never stopped or
\* replaced; 'Scene.status' 'unloaded' is notified for every stopped parcel
\* scene just before its worker is disposed.
C36_OnlyParcelScenesStopped ==
  /\ \A t \in 1 .. Len(parcel.tasks) :
       \A id \in InSeq(parcel.tasks[t].unloads) :
         /\ id \in InSeq(parcel.tasks[t].previousSet)
         /\ id \notin InSeq(parcel.tasks[t].newSet)
  /\ \A id \in GlobalSceneIds : parcel.worker[id] = NewParcel(<<>>).worker[id]
  /\ \A k \in LogIds : parcel.log[k].id \in ParcelSceneIds
  /\ \A k \in LogIds :
       parcel.log[k].e = "dispose"
         => /\ k > 1
            /\ parcel.log[k - 1].e = "unloaded"
            /\ parcel.log[k - 1].id = parcel.log[k].id

\* a remove has stopped the worker of its scene, a reload has replaced one,
\* and the global scenes are loaded
C36_Witness ==
  /\ ParcelSettled
  /\ \E t \in 1 .. Len(parcel.tasks) :
       parcel.tasks[t].kind = "removeDesiredParcel" /\ parcel.tasks[t].unloads # <<>>
  /\ \E t \in 1 .. Len(parcel.tasks) : parcel.tasks[t].kind = "reloadScene"
  /\ \E k \in LogIds : parcel.log[k].e = "dispose" /\ parcel.log[k].by = "reloadScene"
  /\ \A id \in GlobalSceneIds : id \in loadedSceneWorkers

(***************************************************************************)
(* Claims about the portable experiences (checked under SpecPortable)      *)
(***************************************************************************)
\* C37: when a call of declareWantedPortableExperiences(pxs) has settled
\* without error, the running experiences are those of pxs: the others were
\* stopped, the missing ones spawned once each, and those running and still
\* wanted neither stopped nor spawned.
C37_RunningEqualsWanted ==
  \A t \in 1 .. Len(portable.calls) :
    LET c == portable.calls[t]
    IN c.pc = "done"
         => /\ c.after = InSeq(c.pxs)
            /\ c.killed = c.before \ InSeq(c.pxs)
            /\ \A id \in InSeq(c.pxs) :
                 Cardinality({k \in 1 .. Len(c.spawned) : c.spawned[k] = id}) <= 1
            /\ \A id \in c.before \cap InSeq(c.pxs) :
                 id \notin c.killed /\ id \notin InSeq(c.spawned)

(***************************************************************************)
(* Claims about the CRDT messages (checked under SpecCrdt)                 *)
(***************************************************************************)
CrdtCalls == 1 .. Len(crdt.calls)

\* C38: the list a messageFromRenderer call returns holds the messages
\* queued since the previous call, in order, and nothing queued later; no
\* message is in the lists of two calls, and every queued message is in
\* the list of a call or still in the queue.
C38_EachMessageOnce ==
  /\ \A i \in CrdtCalls :
       crdt.calls[i].isRead => crdt.calls[i].read = crdt.calls[i].atCall
  /\ \A i, j \in CrdtCalls :
       (i # j /\ crdt.calls[i].isRead /\ crdt.calls[j].isRead)
         => InSeq(crdt.calls[i].read) \cap InSeq(crdt.calls[j].read) = {}
  /\ \A m \in 1 .. crdt.queued :
       \/ m \in InSeq(crdt.arrays[crdt.ctx])
       \/ \E i \in CrdtCalls : m \in InSeq(crdt.calls[i].atCall)

(***************************************************************************)
(* Claims about authenticate() (checked under SpecAuth)                    *)
(***************************************************************************)
\* C39: a call of authenticate() dispatches the authenticate action at most
\* once, and only in the state WAITING_PROVIDER: at once when it was made in
\* that state, otherwise by its listener, which stays subscribed only while
\* the state is not WAITING_PROVIDER and is no longer subscribed after the
\* dispatch.
C39_DispatchedOnce ==
  \A c \in 1 .. Len(auth.calls) :
    LET call == auth.calls[c]
    IN /\ Len(call.dispatched) <= 1
       /\ \A k \in 1 .. Len(call.dispatched) : call.dispatched[k] = "WAITING_PROVIDER"
       /\ call.at = "WAITING_PROVIDER" => Len(call.dispatched) >= 1
       /\ call.dispatched # <<>> => c \notin InSeq(auth.listeners)
       /\ c \in InSeq(auth.listeners) => auth.loginState # "WAITING_PROVIDER"

(***************************************************************************)
(* Claims about the initial scene loading (checked under SpecLoading)      *)
(***************************************************************************)
\* C40: experienceStarted is put at most once, and only after a state in
\* which login had completed, parcel loading had started, pendingScenes was
\* 0 and, initialLoad being true, totalScenes was not 0; the pending count of
\* a report is at most its countable count and counts no persistent worker
\* and no worker whose loading failed.
C40_ExperienceStartedWhenLoaded ==
  /\ loading.started <= 1
  /\ loading.pc \in {"experienceStarted", "done"} =>
       /\ loading.stage = "COMPLETED"
       /\ loading.selected # <<>>
       /\ \A state \in InSeq(loading.selected) :
            /\ state.stage = "COMPLETED"
            /\ state.parcelLoadingStarted
            /\ state.pendingScenes = 0
            /\ state.initialLoad => state.totalScenes # 0
  /\ loading.started = 1 <=> loading.pc = "done"
  /\ \A report \in InSeq(loading.informed) :
       /\ report.pendingScenes <= report.countableScenes
       /\ report.pendingScenes = Cardinality(report.ids)
       /\ \A w \in InSeq(report.workers) :
            (w.persistent \/ "LOADING_FAILED" \in w.ready) => w.id \notin report.ids

\* C40 witness: experienceStarted was put while a persistent worker and a
\* worker whose loading failed are loaded, and the last report counted one
\* scene and none pending.
C40_Witness ==
  /\ loading.started = 1
  /\ \E report \in InSeq(loading.informed) :
       /\ report.countableScenes = 1
       /\ report.pendingScenes = 0
       /\ \E w \in InSeq(report.workers) : w.persistent
       /\ \E w \in InSeq(report.workers) : "LOADING_FAILED" \in w.ready


====
